---- MODULE Spec2Model ----
(***************************************************************************)
(* ICD-10 coding pipeline: start-up and the upload handlers (app/main.py), *)
(* the classification adapter and its root-family policy validator         *)
(* (app/ai_selector.py), the orchestrator, hierarchy completion and the    *)
(* confidence scorer (app/medical_engine.py).                              *)
(*                                                                         *)
(* A code is a Python str, kept here as the sequence of its characters     *)
(* (one-character strings), so that code[:3], len(code), code.isalnum()    *)
(* and the ordering used by sorted() are computed as Python computes them. *)
(***************************************************************************)
EXTENDS Integers, Sequences, FiniteSets, TLC

VARIABLES
    tax,               \* which taxonomy icd_lib serves (read-only after start-up)
    pc,                \* position of extract_codes_for_spreadsheet
    run,               \* 1: first invocation, 2: repeated invocation on the same inputs
    candidates,        \* result of vector_engine.search_codes
    ai_response,       \* initial_selection returned by _execute_ai_selection
    selected_codes,    \* result of select_relevant_codes (validated codes)
    all_codes,         \* the set all_codes of hierarchy completion
    icd_errors,        \* icd_errors of hierarchy completion
    contributions,     \* per selected code: descendants and family_filtered_descendants
    set_order,         \* the order in which the set all_codes iterated
    sorted_codes,      \* sorted(all_codes), the list the second loop walks
    validation_errors, \* validation_errors of hierarchy completion
    refined_codes,     \* refined_codes of the returned ClinicalRefinementResponse
    clinical_summary,  \* clinical_summary of the returned response
    first_run,         \* the outputs of the first invocation, kept for comparison
    v_pc, v_K, v_in, v_out,  \* harness of the validator as a pure function
    boot,              \* module-level start-up of main.py: starting, serving or failed
    taxonomy_loaded,   \* icd_lib.change_version and the test queries went through
    endpoint,          \* the handler serving the upload
    upload,            \* what the handler finds in the upload before the engine runs
    http,              \* the response the caller of the handler receives
    search_outcome,    \* how vector_engine.search_codes ended
    ai_call,           \* what client.chat.completions.create did for this request
    ai_calls,          \* calls of client.chat.completions.create in this run
    completion_runs,   \* calls of _complete_hierarchy_with_family_focus in this run
    s_pc, s_in, s_out, \* harness of the confidence scorer as a pure function
    c_req,             \* the requests in flight on the shared engine, each with its locals
    q_pc, q_matches, q_out,  \* harness of search_codes: the matches of the index, the result
    q_reordered, q_again,    \* the same matches in another order, and the result for them
    f_pc, f_in, f_out,       \* harness of the candidate listing: text and candidates, listing
    f_permuted, f_again,     \* the same candidates in another order, and their listing
    w_pc,              \* position of _complete_hierarchy_with_family_focus, lookup by lookup
    w_sel, w_i,        \* selected_codes and the index of the code the first loop is at
    w_st,              \* all_codes, icd_errors and the per-code values so far
    w_trav,            \* all_descendants, remaining_slots and the lookups of this code
    w_children, w_j,   \* sorted_children and the index of the child the loop is at
    w_lookups,         \* taxonomy lookups made for each selected code in the first loop
    w_walk, w_k,       \* sorted(all_codes) and the index of the code the second loop is at
    w_ref,             \* refined_codes and validation_errors so far
    l_pc,              \* position of main() of the embedding loader, or between runs
    log_file,          \* the lines of data-prep/processed_ids.log
    index_store,       \* the ids of the vectors the index holds
    processed_ids,     \* the set get_processed_ids_from_log returned to this run
    unprocessed,       \* the ids of unprocessed_df, in order
    l_i,               \* the offset i of the batch loop
    vectors_to_upsert, \* the ids of the vectors built for the batch
    l_j,               \* the offset j of the chunk loop
    l_calls            \* the embedding and upsert calls this run made, in order

pipelineVars == <<tax, pc, run, candidates, ai_response, selected_codes, all_codes,
                  icd_errors, contributions, set_order, sorted_codes, validation_errors,
                  refined_codes, clinical_summary, first_run,
                  boot, taxonomy_loaded, endpoint, upload, http,
                  search_outcome, ai_call, ai_calls, completion_runs>>

harnessVars == <<v_pc, v_K, v_in, v_out>>

scorerVars == <<s_pc, s_in, s_out>>

searchVars == <<q_pc, q_matches, q_out, q_reordered, q_again>>

formatVars == <<f_pc, f_in, f_out, f_permuted, f_again>>

walkVars == <<w_pc, w_sel, w_i, w_st, w_trav, w_children, w_j, w_lookups, w_walk, w_k,
              w_ref>>

loaderVars == <<l_pc, log_file, index_store, processed_ids, unprocessed, l_i,
                vectors_to_upsert, l_j, l_calls>>

laterVars == <<searchVars, formatVars, walkVars, loaderVars>>

vars == <<pipelineVars, harnessVars, scorerVars, c_req, laterVars>>

-----------------------------------------------------------------------------
(* Bounds of the model *)

\* longest arbitrary selection the classification service returns
MaxSel == 2

\* longest arbitrary input handed to the validator harness
MaxValLen == 3

-----------------------------------------------------------------------------
(* Python strings *)

\* the characters that occur in codes, in ascending code-point order
Alphabet ==
    <<"-", ".", "0", "1", "2", "3", "4", "5", "6", "7", "8", "9",
      "A", "B", "C", "D", "E", "F", "G", "Q", "R", "X", "Z">>

AlphabetIndex ==
    [ch \in {Alphabet[i] : i \in 1..Len(Alphabet)} |->
        CHOOSE i \in 1..Len(Alphabet) : Alphabet[i] = ch]

\* ord(ch), up to an order-preserving renumbering
Ord(ch) == AlphabetIndex[ch]

\* str.isalnum() on one character
IsAlnumChar(ch) == ch \notin {"-", "."}

Range(s) == {s[i] : i \in 1..Len(s)}

Min(a, b) == IF a <= b THEN a ELSE b

\* s[:n]
Prefix(s, n) == SubSeq(s, 1, Min(Len(s), n))

\* a < b on Python strings: lexicographic by code point
RECURSIVE StrLess(_, _)
StrLess(a, b) ==
    IF b = <<>> THEN FALSE
    ELSE IF a = <<>> THEN TRUE
    ELSE IF Head(a) = Head(b) THEN StrLess(Tail(a), Tail(b))
    ELSE Ord(Head(a)) < Ord(Head(b))

\* The value of an expression is bound through a singleton set wherever it is
\* used more than once: TLC then computes it once.

\* the elements of s at the positions idx, in the order of idx
Pick(s, idx) == [k \in 1..Len(idx) |-> s[idx[k]]]

\* the position the element at position i takes in a stable ascending sort
RankAsc(s, i) ==
    Cardinality({j \in 1..Len(s) : StrLess(s[j], s[i]) \/ (s[j] = s[i] /\ j < i)}) + 1

\* the elements of s put at the positions rank gives them
Arrange(s, rank) == [k \in 1..Len(s) |-> s[CHOOSE i \in 1..Len(s) : rank[i] = k]]

SortedValue(s) ==
    CHOOSE r \in {Arrange(s, rank) : rank \in {[i \in 1..Len(s) |-> RankAsc(s, i)]}} : TRUE

\* sorted(codes) for a list of strings: the stable ascending sort
Sorted(codes) == CHOOSE r \in {SortedValue(s) : s \in {codes}} : TRUE

\* the first occurrences of the elements of s, in order
Dedup(s) ==
    LET IsFirst(i) == \A j \in 1..(i - 1) : s[j] # s[i]
    IN  Pick(s, SelectSeq([i \in 1..Len(s) |-> i], IsFirst))

-----------------------------------------------------------------------------
(* Code helpers shared by AICodeSelector and MedicalCodingEngine *)

\* _extract_root_family: code[:3] if len(code) >= 3 else code
ExtractRootFamily(code) == IF Len(code) >= 3 THEN Prefix(code, 3) ELSE code

\* _is_root_code: len(code) == 3 and code.isalnum()
IsRootCode(code) == Len(code) = 3 /\ \A i \in 1..Len(code) : IsAlnumChar(code[i])

\* _extract_allowed_root_families / _get_root_families
RootFamilies(codes) == {ExtractRootFamily(codes[i]) : i \in 1..Len(codes)}

-----------------------------------------------------------------------------
(* Program constants *)

\* AICodeSelector.MAX_ROOT_FAMILIES
MAX_ROOT_FAMILIES == 6

\* default of max_codes in _get_nearby_descendants
MaxCodes == 25

-----------------------------------------------------------------------------
(* Codes used by the taxonomies and the inputs *)

Digits == <<"0", "1", "2", "3", "4", "5", "6", "7", "8", "9">>

\* "<root>.<d>" for d in 0..9
Sub(root, d) == root \o <<".", Digits[d + 1]>>

\* "<root>.<two digits of i>" for i in 0..99
Sub2(root, i) == root \o <<".", Digits[(i \div 10) + 1], Digits[(i % 10) + 1]>>

A00 == <<"A", "0", "0">>
A01 == <<"A", "0", "1">>
B00 == <<"B", "0", "0">>
C00 == <<"C", "0", "0">>
D00 == <<"D", "0", "0">>
E11 == <<"E", "1", "1">>
F32 == <<"F", "3", "2">>
G00 == <<"G", "0", "0">>
Q99 == <<"Q", "9", "9">>
R10 == <<"R", "1", "0">>
Z79 == <<"Z", "7", "9">>
X9 == <<"X", "9">>
BlockA == <<"A", "0", "0", "-", "A", "0", "9">>

\* children of a node with more direct children than max_codes
WideChildren == [i \in 1..(MaxCodes + 2) |-> Sub2(B00, i - 1)]

\* children of a node one short of max_codes, the first of which has children
NearChildren == [i \in 1..(MaxCodes - 1) |-> Sub2(C00, i - 1)]

Leaves(codes) == [c \in codes |-> <<>>]

\* A taxonomy as icd_lib serves it: the codes is_valid_item accepts, the list
\* get_children returns for each, and the codes is_subcategory accepts.

\* shaped like ICD-10-CM: a block above two categories, a category without
\* children (R10), a category with more than max_codes children (B00), and a
\* category whose children and grandchildren together exceed max_codes (C00)
IcdTaxonomy ==
    LET inner == (BlockA :> <<A00, A01>>)
              @@ (A00 :> <<Sub(A00, 0), Sub(A00, 1)>>)
              @@ (Sub(A00, 1) :> <<Sub2(A00, 10), Sub2(A00, 11)>>)
              @@ (A01 :> <<Sub(A01, 0)>>)
              @@ (B00 :> WideChildren)
              @@ (C00 :> NearChildren)
              @@ (Sub2(C00, 0) :> <<Sub2(C00, 0) \o <<"0">>, Sub2(C00, 0) \o <<"1">>,
                                    Sub2(C00, 0) \o <<"2">>>>)
              @@ (E11 :> [d \in 1..10 |-> Sub(E11, d - 1)])
              @@ (Z79 :> <<Sub(Z79, 4)>>)
        leaves == UNION {Range(inner[c]) : c \in DOMAIN inner} \ DOMAIN inner
        kids == inner @@ Leaves(leaves \cup {R10})
    IN  [valid |-> DOMAIN kids,
         children |-> kids,
         subcategories |-> {c \in DOMAIN kids : Len(c) > 3 /\ c # BlockA},
         validity_raises |-> {},
         children_raise |-> {}]

\* not shaped like ICD-10-CM: unsorted children, a cycle (A00 -> A00.0 -> A00),
\* children outside the parent's family, a category below a subcategory, and a
\* child the taxonomy does not know (A01.9)
OddTaxonomy ==
    LET kids == (A00 :> <<Sub(A00, 1), Sub(A00, 0)>>)
             @@ (Sub(A00, 0) :> <<A00>>)
             @@ (Sub(A00, 1) :> <<Sub(A01, 0), A01, Sub2(A00, 10)>>)
             @@ (A01 :> <<Sub(A01, 9), Sub(A01, 0)>>)
             @@ (R10 :> <<Sub(A00, 0)>>)
             @@ (BlockA :> <<A01, A00>>)
             @@ Leaves({Sub(A01, 0), Sub2(A00, 10)})
    IN  [valid |-> DOMAIN kids,
         children |-> kids,
         subcategories |-> {c \in DOMAIN kids : Len(c) > 3 /\ c # BlockA},
         validity_raises |-> {},
         children_raise |-> {}]

\* ICD-10-CM served by a library whose lookups fail for some codes: the
\* validity lookup raises for R10, and the children lookup raises for a
\* subcategory (A00.1) and for a category (A01) that the library knows
FaultyTaxonomy ==
    [IcdTaxonomy EXCEPT !.validity_raises = {R10},
                        !.children_raise = {Sub(A00, 1), A01}]

TaxonomyNames == {"icd", "odd", "faulty"}

\* the taxonomy icd_lib serves
Taxonomy(name) ==
    IF name = "icd" THEN IcdTaxonomy
    ELSE IF name = "odd" THEN OddTaxonomy
    ELSE FaultyTaxonomy

\* icd_lib.is_valid_item(code) raises
IsValidItemRaises(t, code) == code \in t.validity_raises

\* icd_lib.is_valid_item(code)
IsValidItem(t, code) == code \in t.valid

\* icd_lib.get_children(code) raises: always for a code the library does not
\* know, and for a code it knows when the lookup itself fails
GetChildrenRaises(t, code) == code \notin t.valid \/ code \in t.children_raise

\* icd_lib.get_children(code), for a code the library knows
GetChildren(t, code) == t.children[code]

\* icd_lib.is_subcategory(code), for a code the library knows
IsSubcategory(t, code) == code \in t.subcategories

-----------------------------------------------------------------------------
(* AICodeSelector._validate_root_family_focus *)

\* _analyze_root_family_distribution: family_counts.items(), a dict's items
\* in insertion order, each family with the number of codes counted for it
AnalyzeRootFamilyDistribution(codes) ==
    LET families == Dedup([i \in 1..Len(codes) |-> ExtractRootFamily(codes[i])])
        Count(fam) == Cardinality({i \in 1..Len(codes) : ExtractRootFamily(codes[i]) = fam})
    IN  [k \in 1..Len(families) |-> <<families[k], Count(families[k])>>]

\* position of item i when equal counts are put in reverse insertion order
RankByCountTiesLast(items, i) ==
    Cardinality({j \in 1..Len(items) :
                    \/ items[j][2] > items[i][2]
                    \/ (items[j][2] = items[i][2] /\ j > i)}) + 1

\* position of item i in sorted(items, key=count, reverse=True): Python's sort
\* is stable, also with reverse=True, so equal counts keep their order
RankByCount(items, i) ==
    Cardinality({j \in 1..Len(items) :
                    \/ items[j][2] > items[i][2]
                    \/ (items[j][2] = items[i][2] /\ j < i)}) + 1

\* the families in the order a sort gives that breaks ties the other way
SortedFamiliesTiesLast(items) ==
    CHOOSE r \in {Arrange(items, rank) :
                    rank \in {[i \in 1..Len(items) |-> RankByCountTiesLast(items, i)]}} : TRUE

\* sorted(family_distribution.items(), key=lambda x: x[1], reverse=True)
SortedFamilies(items) ==
    CHOOSE r \in {Arrange(items, rank) :
                    rank \in {[i \in 1..Len(items) |-> RankByCount(items, i)]}} : TRUE

\* allowed_families with one family too many
AllowedFamiliesOffByOne(sorted_families, K) ==
    {sorted_families[i][1] : i \in 1..Min(Len(sorted_families), K + 1)}

\* set(family[0] for family in sorted_families[:MAX_ROOT_FAMILIES])
AllowedFamilies(sorted_families, K) ==
    {sorted_families[i][1] : i \in 1..Min(Len(sorted_families), K)}

\* a filter that keeps a code once however often the input names it
FilterDroppingRepeats(codes, allowed_families) ==
    LET Keep(code) == ExtractRootFamily(code) \in allowed_families
    IN  Dedup(SelectSeq(codes, Keep))

\* [code for code in codes if _extract_root_family(code) in allowed_families]
FilterToFamilies(codes, allowed_families) ==
    LET Keep(code) == ExtractRootFamily(code) \in allowed_families
    IN  SelectSeq(codes, Keep)

\* _validate_root_family_focus, K standing for self.MAX_ROOT_FAMILIES
ValidateRootFamilyFocus(codes, K) ==
    IF codes = <<>> THEN <<>>
    ELSE CHOOSE r \in
            {FilterToFamilies(codes, AllowedFamilies(SortedFamilies(family_distribution), K)) :
                family_distribution \in {AnalyzeRootFamilyDistribution(codes)}} : TRUE

-----------------------------------------------------------------------------
(* MedicalCodingEngine._get_nearby_descendants *)

\* a child whose children are all taken, whatever budget is left
TakeAllGrandchildren(t, st, child) ==
    IF GetChildrenRaises(t, child)
    THEN [st EXCEPT !.fetched = Append(@, [child |-> child, raised |-> TRUE,
                                           budget |-> st.remaining_slots,
                                           taken |-> <<>>])]
    ELSE LET grandchildren == GetChildren(t, child)
             take_count == Len(grandchildren)
         IN  [all_descendants |-> st.all_descendants \o SubSeq(grandchildren, 1, take_count),
              remaining_slots |-> st.remaining_slots - take_count,
              fetched |-> Append(st.fetched,
                                 [child |-> child, raised |-> FALSE,
                                  budget |-> st.remaining_slots,
                                  taken |-> SubSeq(grandchildren, 1, take_count)])]

\* lines 233-241: one child of the loop over sorted_children; st holds
\* all_descendants and remaining_slots and, per child looked up, what the
\* lookup gave (fetched)
TakeGrandchildren(t, st, child) ==
    IF GetChildrenRaises(t, child)
    THEN [st EXCEPT !.fetched = Append(@, [child |-> child, raised |-> TRUE,
                                           budget |-> st.remaining_slots,
                                           taken |-> <<>>])]
    ELSE LET grandchildren == GetChildren(t, child)
             take_count == Min(Len(grandchildren), st.remaining_slots)
         IN  [all_descendants |-> st.all_descendants \o SubSeq(grandchildren, 1, take_count),
              remaining_slots |-> st.remaining_slots - take_count,
              fetched |-> Append(st.fetched,
                                 [child |-> child, raised |-> FALSE,
                                  budget |-> st.remaining_slots,
                                  taken |-> SubSeq(grandchildren, 1, take_count)])]

\* lines 230-232: the loop over sorted_children, left when no slot remains
RECURSIVE GrandchildrenLoop(_, _, _, _)
GrandchildrenLoop(t, st, sorted_children, i) ==
    IF i > Len(sorted_children) \/ st.remaining_slots <= 0 THEN st
    ELSE CHOOSE r \in {GrandchildrenLoop(t, next, sorted_children, i + 1) :
                          next \in {TakeGrandchildren(t, st, sorted_children[i])}} : TRUE

\* lines 220-241: all_descendants, remaining_slots and the lookups made for
\* grandchildren, before the final slice
Traverse(t, code, max_codes) ==
    CHOOSE r \in
        {IF max_codes - Len(direct_children) > 0 /\ direct_children # <<>>
         THEN GrandchildrenLoop(t, [all_descendants |-> direct_children,
                                    remaining_slots |-> max_codes - Len(direct_children),
                                    fetched |-> <<>>],
                                sorted_children, 1)
         ELSE [all_descendants |-> direct_children,
               remaining_slots |-> max_codes - Len(direct_children),
               fetched |-> <<>>] :
            direct_children \in {GetChildren(t, code)},
            sorted_children \in {Sorted(GetChildren(t, code))}} : TRUE

\* lines 220-241: all_descendants before the final slice
AllDescendants(t, code, max_codes) == Traverse(t, code, max_codes).all_descendants

\* the children lookups tried for the grandchildren of code, in order
Fetched(t, code, max_codes) ==
    IF GetChildrenRaises(t, code) THEN <<>> ELSE Traverse(t, code, max_codes).fetched

\* _get_nearby_descendants without the final slice
NearbyDescendantsUnsliced(t, code, max_codes) ==
    IF GetChildrenRaises(t, code) THEN <<>> ELSE AllDescendants(t, code, max_codes)

\* _get_nearby_descendants(code, max_codes)
GetNearbyDescendants(t, code, max_codes) ==
    IF GetChildrenRaises(t, code) THEN <<>>
    ELSE Prefix(AllDescendants(t, code, max_codes), max_codes)

-----------------------------------------------------------------------------
(* MedicalCodingEngine._complete_hierarchy_with_family_focus, first loop *)

\* all_codes.add(code): all_codes is a Python set, kept as the list of its
\* distinct elements in insertion order
SetAdd(codes, code) == IF code \in Range(codes) THEN codes ELSE Append(codes, code)

\* a list extended by every code it is given
ListExtend(codes, more) == codes \o more

\* all_codes.update(more)
SetUpdate(codes, more) == Dedup(codes \o more)

\* descendants kept whatever their family
FilterNonRootOnly(descendants, allowed_families) ==
    LET Keep(desc) == ~IsRootCode(desc) IN SelectSeq(descendants, Keep)

\* family_filtered_descendants
FamilyFilteredDescendants(descendants, allowed_families) ==
    LET Keep(desc) == ExtractRootFamily(desc) \in allowed_families /\ ~IsRootCode(desc)
    IN  SelectSeq(descendants, Keep)

\* a selected code added whether or not it is a root with descendants
AlwaysAddSelected(codes, code, family_filtered_descendants) == SetAdd(codes, code)

\* lines 137-145: the selected code itself is added unless it is a root code
\* with family-filtered descendants
AddSelectedCode(codes, code, family_filtered_descendants) ==
    IF ~IsRootCode(code) THEN SetAdd(codes, code)
    ELSE IF family_filtered_descendants = <<>> THEN SetAdd(codes, code)
    ELSE codes

\* what an iteration of the first loop records when it ends at line 128
\* (lookup = "invalid") or in the handler of line 151 (lookup = "raised")
FailedContribution(st, code, lookup) ==
    [code |-> code, valid |-> FALSE, lookup |-> lookup,
     descendants |-> <<>>, family_filtered |-> <<>>,
     before |-> st.all_codes, after |-> st.all_codes]

\* how the children lookup of line 220 went for a code the library accepts
ChildrenLookup(t, code) == IF GetChildrenRaises(t, code) THEN "children_raised" ELSE "ok"

\* lines 132-149 for a selected code the library accepts, from the
\* descendants _get_nearby_descendants returned
Contribute(t, st, code, descendants, allowed_families) ==
    CHOOSE r \in
        {[st EXCEPT !.all_codes = after,
                    !.contributions = Append(@, [code |-> code, valid |-> TRUE,
                                                lookup |-> ChildrenLookup(t, code),
                                                descendants |-> descendants,
                                                family_filtered |-> family_filtered,
                                                before |-> st.all_codes,
                                                after |-> after])] :
            family_filtered \in {FamilyFilteredDescendants(descendants, allowed_families)},
            after \in {SetUpdate(AddSelectedCode(st.all_codes, code,
                           FamilyFilteredDescendants(descendants, allowed_families)),
                       FamilyFilteredDescendants(descendants, allowed_families))}} : TRUE

\* lines 125-128 and 151-153: the iteration ends without adding anything
RejectCode(t, st, code) ==
    IF IsValidItemRaises(t, code)
    THEN [st EXCEPT !.icd_errors = Append(@, code),
                    !.contributions = Append(@, FailedContribution(st, code, "raised"))]
    ELSE [st EXCEPT !.icd_errors = Append(@, code),
                    !.contributions = Append(@, FailedContribution(st, code, "invalid"))]

\* the body of the first loop for one selected code; st holds all_codes,
\* icd_errors and, per code handled, what the iteration computed
CompleteOneCode(t, st, code, allowed_families) ==
    IF IsValidItemRaises(t, code) \/ ~IsValidItem(t, code)
    THEN RejectCode(t, st, code)
    ELSE CHOOSE r \in
            {Contribute(t, st, code, descendants, allowed_families) :
                descendants \in {GetNearbyDescendants(t, code, MaxCodes)}} : TRUE

\* a first loop that a failed lookup ends: the codes after it are not handled
RECURSIVE CompleteCodesUntilFailure(_, _, _, _, _)
CompleteCodesUntilFailure(t, st, codes, i, allowed_families) ==
    IF i > Len(codes) THEN st
    ELSE IF st.icd_errors # <<>> THEN st
    ELSE CHOOSE r \in
            {CompleteCodesUntilFailure(t, next, codes, i + 1, allowed_families) :
                next \in {CompleteOneCode(t, st, codes[i], allowed_families)}} : TRUE

\* lines 123-153: the first loop from the i-th selected code on
RECURSIVE CompleteCodes(_, _, _, _, _)
CompleteCodes(t, st, codes, i, allowed_families) ==
    IF i > Len(codes) THEN st
    ELSE CHOOSE r \in {CompleteCodes(t, next, codes, i + 1, allowed_families) :
                          next \in {CompleteOneCode(t, st, codes[i], allowed_families)}} :
            TRUE

\* lines 115-156: all_codes, icd_errors and the per-code values after the loop
CollectAllCodes(t, codes) ==
    CHOOSE r \in
        {CompleteCodes(t, [all_codes |-> <<>>, icd_errors |-> <<>>,
                           contributions |-> <<>>], codes, 1, allowed_families) :
            allowed_families \in {RootFamilies(codes)}} : TRUE

-----------------------------------------------------------------------------
(* MedicalCodingEngine._complete_hierarchy_with_family_focus, second loop *)

\* the fields RefinedCodeValidation declares (extra='forbid', all required)
RefinedCodeValidationFields ==
    {"icd_code", "original_description", "enhanced_description", "confidence_score"}

\* the keyword arguments the second loop passes to RefinedCodeValidation
RefinedCodeKeywords ==
    {"icd_code", "original_description", "enhanced_description", "confidence_score",
     "improved_confidence_score"}

\* RefinedCodeValidation(**kwargs) raises a ValidationError
RefinedCodeValidationRaises(kwargs) ==
    \/ kwargs \ RefinedCodeValidationFields # {}
    \/ RefinedCodeValidationFields \ kwargs # {}

\* _calculate_confidence_score_legacy, in hundredths
LegacyConfidenceScore(t, code, codes) ==
    IF code \in Range(codes)
    THEN (IF IsSubcategory(t, code) THEN 95 ELSE 85)
    ELSE (IF IsSubcategory(t, code) THEN 75 ELSE 65)

\* the body of the second loop for one code; st holds refined_codes and
\* validation_errors
RefineOneCode(t, st, code, codes) ==
    IF IsValidItemRaises(t, code)
    THEN [st EXCEPT !.validation_errors = Append(@, <<"Validation error", code>>)]
    ELSE IF ~IsValidItem(t, code)
    THEN [st EXCEPT !.validation_errors = Append(@, <<"Invalid", code>>)]
    ELSE IF IsRootCode(code)
    THEN [st EXCEPT !.validation_errors = Append(@, <<"Root code filtered", code>>)]
    ELSE IF RefinedCodeValidationRaises(RefinedCodeKeywords)
    THEN [st EXCEPT !.validation_errors = Append(@, <<"Validation error", code>>)]
    ELSE [st EXCEPT !.refined_codes =
                        Append(@, [icd_code |-> code,
                                   confidence_score |->
                                       LegacyConfidenceScore(t, code, codes)])]

\* lines 162-187: the second loop from the i-th code of the walk on
RECURSIVE RefineCodes(_, _, _, _, _)
RefineCodes(t, st, walk, i, codes) ==
    IF i > Len(walk) THEN st
    ELSE CHOOSE r \in {RefineCodes(t, next, walk, i + 1, codes) :
                          next \in {RefineOneCode(t, st, walk[i], codes)}} : TRUE

\* lines 159-190: refined_codes and validation_errors after walking sorted(all_codes)
RefineAllCodes(t, walk, codes) ==
    RefineCodes(t, [refined_codes |-> <<>>, validation_errors |-> <<>>], walk, 1, codes)

\* iterating a Python set of strings yields its elements in an order the
\* language does not fix (it follows the per-process string hashes): the
\* orders considered are the first three rotations of the insertion order and
\* of its reverse, which are all the orders of a set of up to three elements
Reverse(s) == [i \in 1..Len(s) |-> s[Len(s) + 1 - i]]

Rotate(s, k) == [i \in 1..Len(s) |-> s[((i + k - 1) % Len(s)) + 1]]

IterationOrders(s) ==
    IF s = <<>> THEN {<<>>}
    ELSE {Rotate(s, k) : k \in 0..Min(Len(s) - 1, 2)}
         \cup {Rotate(Reverse(s), k) : k \in 0..Min(Len(s) - 1, 2)}

\* a summary that reports the selected codes as the total
SummaryOfSelection(codes, refined) ==
    [text |-> "Identified",
     counts |-> <<Len(codes), Cardinality(RootFamilies(codes)), Len(codes),
                  Cardinality(RootFamilies(codes))>>]

\* _generate_clinical_summary: the counts the text reports
GenerateClinicalSummary(codes, refined) ==
    [text |-> "Identified",
     counts |-> <<Len(codes), Cardinality(RootFamilies(codes)), Len(refined),
                  Cardinality(RootFamilies([i \in 1..Len(refined) |-> refined[i].icd_code]))>>]


\* the walk of the second loop without the sort: the set's own iteration order
WalkUnsorted(iteration) == iteration

\* sorted(all_codes) at line 162, from the order in which the set iterates
SortedAllCodes(iteration) == Sorted(iteration)

-----------------------------------------------------------------------------
(* MedicalCodingEngine._calculate_confidence_score                         *)
(*                                                                         *)
(* A score is a Python float, kept here in ten-thousandths (0.95 is 9500); *)
(* the weights are in hundredths, so a weighted factor is score * w / 100. *)
(* The inputs are chosen so that every division is exact.                  *)

\* 1.0
ScoreUnit == 10000

\* min(1.0, x)
Min1(x) == IF x > ScoreUnit THEN ScoreUnit ELSE x

\* max(0.0, x)
Max0(x) == IF x < 0 THEN 0 ELSE x

\* a score passed on as it is
Unclamped(x) == x

\* max(0.0, min(1.0, x))
Clamp01(x) == Max0(Min1(x))

\* round(x, 3): the nearest thousandth; a value half-way between two
\* thousandths goes to either, according to the float that stands for it
Round3(x) ==
    IF x % 10 = 5 THEN {x - 5, x + 5}
    ELSE IF x % 10 < 5 THEN {x - (x % 10)}
    ELSE {x + (10 - (x % 10))}

\* _calculate_semantic_similarity on the counts it derives from the two texts:
\* words longer than 3 characters in the search text and in the description,
\* words in common, description phrases found in the search text and medical
\* terms found in both
CalculateSemanticSimilarity(sem) ==
    IF sem.search_words = 0 \/ sem.description_words = 0 THEN 5000
    ELSE LET most == IF sem.search_words >= sem.description_words
                     THEN sem.search_words ELSE sem.description_words
             overlap_ratio == (sem.common_words * ScoreUnit) \div most
             phrase_boost == IF sem.long_search THEN 2000 * sem.phrases ELSE 0
             medical_bonus == 1000 * sem.medical_terms
         IN  Min1(overlap_ratio + phrase_boost + medical_bonus)

\* lines 300-308: vector_score from the candidate carrying the code, if any
\* (kind "absent": no candidate carries it; "none": its score is not a
\* number); min(1.0, nan) is 1.0 in Python
VectorScore(cand) ==
    IF cand.kind = "absent" THEN 0
    ELSE IF cand.kind = "nan" THEN Clamp01(ScoreUnit)
    ELSE Clamp01(((cand.score - 1000) * 10) \div 9)

\* _normalize_confidence_score before the rounding
NormalizeAdjusted(raw_score, in_selected, sub, code) ==
    LET by_selection ==
            IF in_selected
            THEN (IF raw_score < 8000 THEN Min1(raw_score + 1000) ELSE raw_score)
            ELSE (IF raw_score > 9000 THEN Max0(raw_score - 1000) ELSE raw_score)
        by_specificity ==
            IF sub = "raises" THEN by_selection
            ELSE IF sub = "yes"
            THEN (IF by_selection < 7000 THEN Min1(by_selection + 500) ELSE by_selection)
            ELSE IF IsRootCode(code) THEN Max0(by_selection - 1000)
            ELSE by_selection
    IN  Clamp01(by_specificity)

\* _normalize_confidence_score: the values round() may give
NormalizeConfidenceScore(raw_score, in_selected, sub, code) ==
    Round3(NormalizeAdjusted(raw_score, in_selected, sub, code))

\* number of '.' in the code
DecimalCount(code) == Cardinality({i \in 1..Len(code) : code[i] = "."})

\* lines 310-316: factors['vector_search'], the value weighted by 0.25
VectorSearchFactor(cand, in_selected) ==
    CHOOSE r \in
        {IF vector_score > 0 THEN vector_score
         ELSE IF in_selected THEN 5000 ELSE 3000 :
            vector_score \in {VectorScore(cand)}} : TRUE

\* lines 177-183: the keyword arguments of RefinedCodeValidation that carry
\* the two scores
ScoreArguments(legacy_score, improved_score) ==
    [confidence_score |-> legacy_score, improved_confidence_score |-> improved_score]

\* lines 285-378: final_score before normalisation, the library answering
\* is_subcategory with sub ("yes" or "no") and is_category with cat
FinalScore(code, in_selected, sub, cat, cand, sem) ==
    LET ai_score == IF in_selected THEN (IF sub = "yes" THEN 9500 ELSE 8500)
                    ELSE (IF sub = "yes" THEN 7500 ELSE 6500)
        vector_part == VectorSearchFactor(cand, in_selected)
        specificity_score == IF sub = "yes" THEN 9000
                             ELSE IF cat = "raises" THEN 5000
                             ELSE IF cat = "yes" THEN 7000 ELSE 5000
        depth_score == IF DecimalCount(code) >= 2 THEN 9000
                       ELSE IF DecimalCount(code) = 1 THEN 8000 ELSE 6000
        semantic_score == IF sem.text = "absent" THEN 5000
                          ELSE IF sem.text = "raises" THEN 5000
                          ELSE CalculateSemanticSimilarity(sem)
        base_score == (ai_score * 40) \div 100 + (vector_part * 25) \div 100
                      + (specificity_score * 15) \div 100 + (depth_score * 10) \div 100
                      + (semantic_score * 10) \div 100
        boosted == IF in_selected /\ sub = "yes" THEN Min1(base_score + 500) ELSE base_score
        penalised == IF IsRootCode(code) THEN Max0(boosted - 500) ELSE boosted
    IN  Clamp01(penalised)

\* _calculate_confidence_score: the values it may return; an exception inside
\* the outer try (is_subcategory raising, a score that is not a number) gives
\* the default 0.60
CalculateConfidenceScore(code, codes, sub, cat, cand, sem) ==
    IF sub = "raises" \/ cand.kind = "none" THEN {6000}
    ELSE UNION {NormalizeConfidenceScore(final_score, code \in Range(codes), sub, code) :
                   final_score \in {FinalScore(code, code \in Range(codes), sub, cat,
                                               cand, sem)}}

\* _calculate_confidence_score_legacy, is_subcategory answering sub
CalculateConfidenceScoreLegacy(code, codes, sub) ==
    IF sub = "raises" THEN 6000
    ELSE IF code \in Range(codes) THEN (IF sub = "yes" THEN 9500 ELSE 8500)
    ELSE (IF sub = "yes" THEN 7500 ELSE 6500)

-----------------------------------------------------------------------------
(* Inputs *)

\* codes the classification service may name: valid and invalid, roots,
\* subcategories, a block and a string shorter than a family
SelCodes == {BlockA, A00, Sub(A00, 1), A01, R10, Q99, X9}

SeqsUpTo(S, n) == UNION {[1..k -> S] : k \in 0..n}

\* selection with ten codes of family E11 and one of family Z79
ElevenCodes == [i \in 1..11 |-> IF i <= 10 THEN Sub(E11, i - 1) ELSE Sub(Z79, 4)]

\* selections naming one more family than MAX_ROOT_FAMILIES, once each
SevenFamilies == <<G00, Sub(A00, 1), B00, C00, Sub(D00, 0), Sub(E11, 0), Sub(F32, 1)>>

SevenFamiliesAscending ==
    <<Sub(A00, 1), B00, C00, Sub(D00, 0), Sub(E11, 0), Sub(F32, 1), G00>>

\* eight families, two of them twice
EightFamilies ==
    <<Z79, G00, Sub(A00, 1), R10, Sub(A00, 0), B00, C00, Sub(D00, 0), Sub(E11, 0),
      Sub(R10, 1)>>

\* selections naming the categories with many descendants
WideSelections == {<<B00>>, <<C00>>, <<Sub2(C00, 0), C00>>}

\* a code named twice that is also a child of another selected code
RepeatedSelection == <<A00, Sub(A00, 1), Sub(A00, 1)>>

ScenarioSelections ==
    {ElevenCodes, SevenFamilies, SevenFamiliesAscending, EightFamilies, RepeatedSelection}
        \cup WideSelections

\* what _execute_ai_selection may return ([] also stands for a failed call)
SelectionInputs == SeqsUpTo(SelCodes, MaxSel) \cup ScenarioSelections

\* what search_codes may return
CandidateLists == {<<>>, <<[icd_code |-> Sub(A00, 1), score |-> 80]>>}

\* codes for the validator harness: three families, one of them twice
ValCodes == {Sub(A00, 0), Sub(A00, 1), B00, R10, X9}

ValidatorInputs == SeqsUpTo(ValCodes, MaxValLen) \cup ScenarioSelections

-----------------------------------------------------------------------------
(* AICodeSelector._execute_ai_selection and select_relevant_codes *)

\* max_items of InitialSelectionResponse.selected_codes
MaxItems == 60

\* What one call of client.chat.completions.create does: it raises
\* ("transport"), or returns a message whose content json.loads rejects
\* ("not_json"), or returns a JSON object ("json") with the keys fields; typed
\* says that the value of selected_codes is a list of strings.
AiPayload(fields, typed, codes) ==
    [kind |-> "json", fields |-> fields, typed |-> typed, selected_codes |-> codes]

\* client.chat.completions.create not called
NoCall == [kind |-> "none", fields |-> {}, typed |-> TRUE, selected_codes |-> <<>>]

\* the call raised: connection, time-out, status error
TransportFailure ==
    [kind |-> "transport", fields |-> {}, typed |-> TRUE, selected_codes |-> <<>>]

\* the content of the message is not JSON
NotJson == [kind |-> "not_json", fields |-> {}, typed |-> TRUE, selected_codes |-> <<>>]

\* more codes than the schema allows
TooManyCodes == [i \in 1..(MaxItems + 1) |-> Sub2(E11, i)]

\* payloads the schema rejects: an extra key, the required key missing, a
\* value of the wrong type, too many items
SchemaInvalidPayloads ==
    {AiPayload({"selected_codes", "reasoning"}, TRUE, <<Sub(A00, 1)>>),
     AiPayload({}, TRUE, <<>>),
     AiPayload({"selected_codes"}, FALSE, <<Sub(A00, 1)>>),
     AiPayload({"selected_codes"}, TRUE, TooManyCodes)}

\* what the classification service may do for one request
AiCalls ==
    {TransportFailure, NotJson} \cup SchemaInvalidPayloads
        \cup {AiPayload({"selected_codes"}, TRUE, sel) : sel \in SelectionInputs}

\* json.loads(response.choices[0].message.content) raises
JsonLoadsRaises(call) == call.kind = "not_json"

\* a schema check that takes selected_codes from whatever object it is given
SchemaAcceptsAnything(call) == FALSE

\* InitialSelectionResponse(**result_json) raises a ValidationError:
\* extra='forbid', selected_codes required, List[str], max_items=60
InitialSelectionResponseRaises(call) ==
    \/ call.fields # {"selected_codes"}
    \/ ~call.typed
    \/ Len(call.selected_codes) > MaxItems

\* the call, the parse or the schema check raised inside the try
SelectionFails(call) ==
    \/ call.kind = "transport"
    \/ JsonLoadsRaises(call)
    \/ InitialSelectionResponseRaises(call)

\* _execute_ai_selection without its except clause
ExecuteAiSelectionUncaught(call) ==
    IF SelectionFails(call) THEN [raised |-> TRUE, codes |-> <<>>]
    ELSE [raised |-> FALSE, codes |-> call.selected_codes]

\* _execute_ai_selection: the selected codes, [] when anything in the try raised
ExecuteAiSelection(call) ==
    IF SelectionFails(call) THEN [raised |-> FALSE, codes |-> <<>>]
    ELSE [raised |-> FALSE, codes |-> call.selected_codes]

\* a failed call made once more
AttemptsWithRetry(call) == IF call.kind = "transport" \/ call.kind = "not_json" THEN 2 ELSE 1

\* calls of client.chat.completions.create one _execute_ai_selection makes
ClassificationAttempts(call) == IF call.kind = "none" THEN 0 ELSE 1

SelectRelevantCodes(cands, initial_selection) ==
    IF cands = <<>> THEN <<>>
    ELSE IF initial_selection = <<>> THEN <<>>
    ELSE ValidateRootFamilyFocus(initial_selection, MAX_ROOT_FAMILIES)

-----------------------------------------------------------------------------
(* Start-up: main.py builds the engine when the module is loaded *)

\* what may go wrong while the components are built
StartupFaults == {"none", "vector_engine", "taxonomy", "metadata_generator"}

\* a loader that logs the failure and returns
InitializeLoggingOnly(fault) == "returns"

\* _initialize_official_icd_library: any exception while loading or probing
\* the taxonomy is raised again as RuntimeError
InitializeOfficialIcdLibrary(fault) == IF fault = "taxonomy" THEN "raises" ELSE "returns"

\* MedicalCodingEngine(): VectorSearchEngine(), AICodeSelector(), then the taxonomy
EngineConstructed(fault) ==
    fault # "vector_engine" /\ InitializeOfficialIcdLibrary(fault) = "returns"

\* main.py lines 60-66: both components built, anything else is raised again
ComponentsInitialized(fault) == EngineConstructed(fault) /\ fault # "metadata_generator"

-----------------------------------------------------------------------------
(* The handlers of /analyze and /process-spreadsheet *)

Endpoints == {"analyze", "process-spreadsheet"}

\* what the handler meets before it calls the engine: the three checks that
\* raise HTTPException(400), a step raising ValueError, a step raising
\* another exception, or nothing
Uploads == {"no_filename", "empty_file", "no_title", "value_error", "unexpected", "ok"}

NothingRaised == [kind |-> "none", status |-> 200]

\* the exception the statements before the engine call raise inside the try
RaisedBeforeEngine(up) ==
    IF up \in {"no_filename", "empty_file", "no_title"}
    THEN [kind |-> "HTTPException", status |-> 400]
    ELSE IF up = "value_error" THEN [kind |-> "ValueError", status |-> 0]
    ELSE IF up = "unexpected" THEN [kind |-> "Exception", status |-> 0]
    ELSE NothingRaised

\* the exception the statements after the engine call raise inside the try
RaisedAfterEngine(engine_raised, refined) ==
    IF engine_raised THEN [kind |-> "Exception", status |-> 0]
    ELSE IF refined = <<>> THEN [kind |-> "HTTPException", status |-> 404]
    ELSE NothingRaised

\* no response sent yet
NoResponse == [status |-> 0, detail |-> "", raised |-> NothingRaised]

\* The except clauses of the handler. HTTPException derives from Exception
\* and not from ValueError, so an HTTPException raised inside the try is
\* caught by the second clause and raised again with status 500.
HandlerResponse(ep, raised) ==
    IF raised.kind = "none"
    THEN [status |-> 200, detail |-> "ok", raised |-> raised]
    ELSE IF raised.kind = "ValueError"
    THEN [status |-> 400, detail |-> "validation error", raised |-> raised]
    ELSE [status |-> 500,
          detail |-> IF ep = "analyze" THEN "Analysis failed" ELSE "Processing failed",
          raised |-> raised]

-----------------------------------------------------------------------------
(* MedicalCodingEngine.extract_codes_for_spreadsheet *)

\* a search that is taken to have found something
CandidatesAssumed(cands) == FALSE

\* line 66: if not candidates
NoCandidates(cands) == cands = <<>>

\* a selection that is taken to have named something
SelectionAssumed(codes) == FALSE

\* line 78: if not selected_codes
NoSelection(codes) == codes = <<>>

\* how search_codes may end: it returns, or the embedding or the index query raises
SearchOutcomes == {"ok", "raises"}

NoRun == [selected_codes |-> <<>>, set_order |-> <<>>, sorted_codes |-> <<>>,
          refined_codes |-> <<>>,
          clinical_summary |-> [text |-> "", counts |-> <<>>]]

NoText(kind) ==
    [text |-> kind, search_words |-> 0, description_words |-> 0, common_words |-> 0,
     long_search |-> FALSE, phrases |-> 0, medical_terms |-> 0]

HarnessIdle ==
    /\ v_pc = "off"
    /\ v_K = MAX_ROOT_FAMILIES
    /\ v_in = <<>>
    /\ v_out = <<>>

NotScored == [improved |-> 0, legacy |-> 0, confidence_score |-> 0, vector_search |-> 0]

ScorerIdle ==
    /\ s_pc = "off"
    /\ s_in = [code |-> <<>>, codes |-> <<>>, sub |-> "no", cat |-> "no",
               cand |-> [kind |-> "absent", score |-> 0], sem |-> NoText("absent")]
    /\ s_out = NotScored

ConcurrentIdle == c_req = <<>>

NoSearchResult == [raised |-> FALSE, candidates |-> <<>>]

SearchIdle ==
    /\ q_pc = "off"
    /\ q_matches = <<>>
    /\ q_out = NoSearchResult
    /\ q_reordered = <<>>
    /\ q_again = NoSearchResult

FormatIdle ==
    /\ f_pc = "off"
    /\ f_in = [text |-> <<>>, candidates |-> <<>>]
    /\ f_out = <<>>
    /\ f_permuted = <<>>
    /\ f_again = <<>>

NoTraversal == [all_descendants |-> <<>>, remaining_slots |-> 0, fetched |-> <<>>]

NothingCollected == [all_codes |-> <<>>, icd_errors |-> <<>>, contributions |-> <<>>]

NothingRefined == [refined_codes |-> <<>>, validation_errors |-> <<>>]

WalkIdle ==
    /\ w_pc = "off"
    /\ w_sel = <<>>
    /\ w_i = 0
    /\ w_st = NothingCollected
    /\ w_trav = NoTraversal
    /\ w_children = <<>>
    /\ w_j = 0
    /\ w_lookups = <<>>
    /\ w_walk = <<>>
    /\ w_k = 0
    /\ w_ref = NothingRefined

\* the loader before its first run: no log file and an index without vectors
LoaderIdle ==
    /\ l_pc = "off"
    /\ log_file = <<>>
    /\ index_store = {}
    /\ processed_ids = {}
    /\ unprocessed = <<>>
    /\ l_i = 0
    /\ vectors_to_upsert = <<>>
    /\ l_j = 0
    /\ l_calls = <<>>

LaterIdle == SearchIdle /\ FormatIdle /\ WalkIdle /\ LoaderIdle

PipelineIdle ==
    /\ pc = "boot"
    /\ run = 1
    /\ candidates = <<>>
    /\ ai_response = <<>>
    /\ selected_codes = <<>>
    /\ all_codes = <<>>
    /\ icd_errors = <<>>
    /\ contributions = <<>>
    /\ set_order = <<>>
    /\ sorted_codes = <<>>
    /\ validation_errors = <<>>
    /\ refined_codes = <<>>
    /\ clinical_summary = [text |-> "", counts |-> <<>>]
    /\ first_run = NoRun
    /\ boot = [state |-> "starting", fault |-> "none"]
    /\ taxonomy_loaded = FALSE
    /\ endpoint = "none"
    /\ upload = "none"
    /\ http = NoResponse
    /\ search_outcome = "none"
    /\ ai_call = NoCall
    /\ ai_calls = 0
    /\ completion_runs = 0

Init ==
    /\ tax \in TaxonomyNames
    /\ PipelineIdle
    /\ HarnessIdle
    /\ ScorerIdle
    /\ ConcurrentIdle
    /\ LaterIdle

requestVars == <<run, candidates, ai_response, selected_codes, all_codes, icd_errors,
                 contributions, set_order, sorted_codes, validation_errors,
                 refined_codes, clinical_summary, first_run, search_outcome, ai_call,
                 ai_calls, completion_runs>>

completionVars == <<all_codes, icd_errors, contributions, set_order, sorted_codes,
                    validation_errors, refined_codes>>

otherVars == <<harnessVars, scorerVars, c_req, laterVars>>

\* main.py lines 58-66: the components are built; a failure is raised again
\* and the application does not come up
InitializeComponents ==
    /\ pc = "boot"
    /\ \E fault \in StartupFaults :
         /\ boot' = [state |-> IF ComponentsInitialized(fault) THEN "serving" ELSE "failed",
                     fault |-> fault]
         /\ taxonomy_loaded' = (fault \notin {"vector_engine", "taxonomy"})
         /\ pc' = IF ComponentsInitialized(fault) THEN "idle" ELSE "down"
    /\ UNCHANGED <<tax, endpoint, upload, http>>
    /\ UNCHANGED requestVars
    /\ UNCHANGED otherVars

\* the handler up to the call of the engine (main.py lines 81-179, 219-320)
ReceiveUpload ==
    /\ pc = "idle"
    /\ \E ep \in Endpoints, up \in Uploads :
         /\ endpoint' = ep
         /\ upload' = up
         /\ IF RaisedBeforeEngine(up).kind = "none"
            THEN /\ pc' = "start"
                 /\ UNCHANGED http
            ELSE /\ pc' = "responded"
                 /\ http' = HandlerResponse(ep, RaisedBeforeEngine(up))
    /\ UNCHANGED <<tax, boot, taxonomy_loaded>>
    /\ UNCHANGED requestVars
    /\ UNCHANGED otherVars

\* lines 64-73: the search returns or raises; no candidates ends the request
SearchReturns ==
    /\ pc = "start"
    /\ \E so \in (IF run = 1 THEN SearchOutcomes ELSE {search_outcome}) :
       \E cands \in (IF so = "raises" THEN {<<>>}
                     ELSE IF run = 1 THEN CandidateLists ELSE {candidates}) :
         /\ search_outcome' = so
         /\ candidates' = cands
         /\ IF so = "raises"
            THEN /\ pc' = "raised"
                 /\ UNCHANGED clinical_summary
            ELSE IF NoCandidates(cands)
            THEN /\ pc' = "done"
                 /\ clinical_summary' =
                        [text |-> "No relevant codes found in vector search.",
                         counts |-> <<>>]
            ELSE /\ pc' = "selecting"
                 /\ UNCHANGED clinical_summary
    /\ UNCHANGED <<tax, run, ai_response, selected_codes, first_run, ai_call, ai_calls,
                   completion_runs>>
    /\ UNCHANGED completionVars
    /\ UNCHANGED <<boot, taxonomy_loaded, endpoint, upload, http>>
    /\ UNCHANGED otherVars

\* lines 76-98: the selection returns; validation, hierarchy completion and
\* the summary follow without another await
SelectionReturns ==
    /\ pc = "selecting"
    /\ \E call \in (IF candidates = <<>> THEN {NoCall}
                    ELSE IF run = 1 THEN AiCalls ELSE {ai_call}) :
       \E initial \in {ExecuteAiSelection(call)} :
       \E sel \in {SelectRelevantCodes(candidates, initial.codes)} :
         /\ ai_call' = call
         /\ ai_calls' = ai_calls + ClassificationAttempts(call)
         /\ ai_response' = initial.codes
         /\ IF initial.raised
            THEN /\ pc' = "raised"
                 /\ UNCHANGED <<selected_codes, clinical_summary, completion_runs>>
                 /\ UNCHANGED completionVars
            ELSE IF NoSelection(sel)
            THEN /\ pc' = "done"
                 /\ selected_codes' = sel
                 /\ clinical_summary' =
                        [text |-> "No codes selected by AI analysis.", counts |-> <<>>]
                 /\ UNCHANGED completion_runs
                 /\ UNCHANGED completionVars
            ELSE \E collected \in {CollectAllCodes(Taxonomy(tax), sel)} :
                 \E iteration \in IterationOrders(collected.all_codes) :
                 \E walk \in {SortedAllCodes(iteration)} :
                 \E refined \in {RefineAllCodes(Taxonomy(tax), walk, sel)} :
                        /\ pc' = "done"
                        /\ selected_codes' = sel
                        /\ completion_runs' = completion_runs + 1
                        /\ all_codes' = collected.all_codes
                        /\ icd_errors' = collected.icd_errors
                        /\ contributions' = collected.contributions
                        /\ set_order' = iteration
                        /\ sorted_codes' = walk
                        /\ validation_errors' = refined.validation_errors
                        /\ refined_codes' = refined.refined_codes
                        /\ clinical_summary' =
                               GenerateClinicalSummary(sel, refined.refined_codes)
    /\ UNCHANGED <<tax, run, candidates, first_run, search_outcome>>
    /\ UNCHANGED <<boot, taxonomy_loaded, endpoint, upload, http>>
    /\ UNCHANGED otherVars

\* the same request is handed to the engine a second time: same taxonomy,
\* same search result, same answer of the classification service
Reinvoke ==
    /\ pc = "done"
    /\ run = 1
    /\ first_run' = [selected_codes |-> selected_codes, set_order |-> set_order,
                     sorted_codes |-> sorted_codes, refined_codes |-> refined_codes,
                     clinical_summary |-> clinical_summary]
    /\ run' = 2
    /\ pc' = "start"
    /\ selected_codes' = <<>>
    /\ all_codes' = <<>>
    /\ icd_errors' = <<>>
    /\ contributions' = <<>>
    /\ set_order' = <<>>
    /\ sorted_codes' = <<>>
    /\ validation_errors' = <<>>
    /\ refined_codes' = <<>>
    /\ clinical_summary' = [text |-> "", counts |-> <<>>]
    /\ ai_calls' = 0
    /\ completion_runs' = 0
    /\ UNCHANGED <<tax, candidates, ai_response, search_outcome, ai_call>>
    /\ UNCHANGED <<boot, taxonomy_loaded, endpoint, upload, http>>
    /\ UNCHANGED otherVars

\* the handler after the call of the engine (main.py lines 181-213, 322-380)
Respond ==
    /\ pc \in {"done", "raised"}
    /\ http' = HandlerResponse(endpoint, RaisedAfterEngine(pc = "raised", refined_codes))
    /\ pc' = "responded"
    /\ UNCHANGED <<tax, boot, taxonomy_loaded, endpoint, upload>>
    /\ UNCHANGED requestVars
    /\ UNCHANGED otherVars

Next ==
    \/ InitializeComponents
    \/ ReceiveUpload
    \/ SearchReturns
    \/ SelectionReturns
    \/ Reinvoke
    \/ Respond

Spec == Init /\ [][Next]_vars

-----------------------------------------------------------------------------
(* The validator as a pure function of its input and of MAX_ROOT_FAMILIES *)

ValidatorInit ==
    /\ tax = "icd"
    /\ PipelineIdle
    /\ ScorerIdle
    /\ ConcurrentIdle
    /\ LaterIdle
    /\ v_pc = "ready"
    /\ v_K \in 1..MAX_ROOT_FAMILIES
    /\ v_in \in ValidatorInputs
    /\ v_out = <<>>

ApplyValidator ==
    /\ v_pc = "ready"
    /\ v_out' = ValidateRootFamilyFocus(v_in, v_K)
    /\ v_pc' = "applied"
    /\ UNCHANGED <<v_K, v_in>>
    /\ UNCHANGED <<pipelineVars, scorerVars, c_req, laterVars>>

ValidatorNext == ApplyValidator

ValidatorSpec == ValidatorInit /\ [][ValidatorNext]_vars

-----------------------------------------------------------------------------
(* The confidence scorer as a pure function of its inputs *)

\* a root code, a subcategory, a code with two decimal points and a string
\* shorter than a family
ScorerCodes == {A00, Sub(A00, 1), <<"A", "0", "0", ".", "1", ".", "2">>, X9}

\* similarity scores of a candidate, in ten-thousandths: below 0, the
\* threshold 0.1, inside the range, 1.0 and above 1.0
RawScores == {0 - 8000, 1000, 1090, 5500, 10000, 19000}

ScorerCandidates ==
    {[kind |-> k, score |-> 0] : k \in {"absent", "nan", "none"}}
        \cup {[kind |-> "number", score |-> x] : x \in RawScores}

\* the source text and the description of the code, by the counts the
\* similarity is computed from
ScorerTexts ==
    {NoText("absent"), NoText("raises"), NoText("given"),
     [text |-> "given", search_words |-> 2, description_words |-> 4, common_words |-> 1,
      long_search |-> TRUE, phrases |-> 0, medical_terms |-> 0],
     [text |-> "given", search_words |-> 2, description_words |-> 2, common_words |-> 2,
      long_search |-> TRUE, phrases |-> 2, medical_terms |-> 3],
     [text |-> "given", search_words |-> 4, description_words |-> 5, common_words |-> 0,
      long_search |-> FALSE, phrases |-> 1, medical_terms |-> 0]}

LibraryAnswers == {"yes", "no", "raises"}

ScorerInit ==
    /\ tax = "icd"
    /\ PipelineIdle
    /\ HarnessIdle
    /\ ConcurrentIdle
    /\ LaterIdle
    /\ s_pc = "ready"
    /\ s_in \in [code : ScorerCodes, codes : {<<>>, <<R10, Sub(A00, 1)>>, <<A00, X9>>},
                 sub : LibraryAnswers, cat : LibraryAnswers,
                 cand : ScorerCandidates, sem : ScorerTexts]
    /\ s_out = NotScored

\* both scorers of the second loop applied to one code (lines 174-175)
ApplyScorer ==
    /\ s_pc = "ready"
    /\ \E improved \in CalculateConfidenceScore(s_in.code, s_in.codes, s_in.sub, s_in.cat,
                                                s_in.cand, s_in.sem) :
       \E legacy \in {CalculateConfidenceScoreLegacy(s_in.code, s_in.codes, s_in.sub)} :
          s_out' = [improved |-> improved,
                    legacy |-> legacy,
                    confidence_score |-> ScoreArguments(legacy, improved).confidence_score,
                    vector_search |->
                        IF s_in.sub = "raises" \/ s_in.cand.kind = "none" THEN 0
                        ELSE VectorSearchFactor(s_in.cand, s_in.code \in Range(s_in.codes))]
    /\ s_pc' = "scored"
    /\ UNCHANGED s_in
    /\ UNCHANGED <<pipelineVars, harnessVars, c_req, laterVars>>

ScorerNext == ApplyScorer

ScorerSpec == ScorerInit /\ [][ScorerNext]_vars

-----------------------------------------------------------------------------
(* Properties *)

\* hierarchy completion ran and the request has returned
Completed == pc = "done" /\ selected_codes # <<>>

RefinedValues == [i \in 1..Len(refined_codes) |-> refined_codes[i].icd_code]

NoDuplicates(s) == \A i, j \in 1..Len(s) : i # j => s[i] # s[j]

HasDecimal(code) == "." \in Range(code)

\* d passes the allowed-family / non-root filter of this run
Eligible(d) == ExtractRootFamily(d) \in RootFamilies(selected_codes) /\ ~IsRootCode(d)

\* the descendants the first loop obtained for a selected code c
ObtainedFor(c) ==
    UNION {Range(contributions[i].descendants) :
              i \in {k \in 1..Len(contributions) : contributions[k].code = c}}

\* C1. Root exclusion: no code of refined_codes, nor of the set all_codes the
\* result is built from, is a root code (3 alphanumeric characters) for which
\* the pass obtained a descendant passing the family / non-root filter; a
\* selected root with such a descendant is left out and its descendants are
\* taken into all_codes.
C1_RootExclusion ==
    /\ \A c \in Range(all_codes) \cup Range(RefinedValues) :
          IsRootCode(c) => \A d \in ObtainedFor(c) : ~Eligible(d)
    /\ \A i \in 1..Len(contributions) :
          (IsRootCode(contributions[i].code) /\ contributions[i].family_filtered # <<>>)
          => /\ contributions[i].code \notin Range(all_codes) \cup Range(RefinedValues)
             /\ Range(contributions[i].family_filtered) \subseteq Range(all_codes)

\* a selected root with eligible descendants was left out, and a selected root
\* without any was taken into all_codes
C1_Witness ==
    /\ Completed
    /\ \E i \in 1..Len(contributions) :
          /\ IsRootCode(contributions[i].code)
          /\ contributions[i].family_filtered # <<>>
          /\ contributions[i].code \notin Range(all_codes)
    /\ \E c \in Range(all_codes) : IsRootCode(c)

\* C2. Family containment: the root families of refined_codes and of all_codes
\* are among the root families of the selected codes, and every code that
\* completion added to the selected ones is in an allowed family and is not a
\* root code.
C2_FamilyContainment ==
    /\ RootFamilies(RefinedValues) \cup RootFamilies(all_codes)
          \subseteq RootFamilies(selected_codes)
    /\ \A c \in Range(all_codes) \ Range(selected_codes) : Eligible(c)

\* completion obtained a descendant outside the selected families, dropped it
\* and added another one
C2_Witness ==
    /\ Completed
    /\ \E i \in 1..Len(contributions) :
          /\ \E d \in Range(contributions[i].descendants) :
                /\ ~IsRootCode(d)
                /\ ExtractRootFamily(d) \notin RootFamilies(selected_codes)
                /\ d \notin Range(all_codes)
          /\ \E d \in Range(contributions[i].family_filtered) :
                d \in Range(all_codes) \ Range(selected_codes)

\* C3. Every selected code that is valid and has a decimal extension appears
\* in refined_codes of the returned response.
C3_SubcategoryIncluded ==
    Completed =>
        \A c \in Range(selected_codes) :
            (IsValidItem(Taxonomy(tax), c) /\ HasDecimal(c) /\ ~IsRootCode(c))
            => c \in Range(RefinedValues)

\* C4. A selected valid root code without children in the taxonomy is among
\* the refined codes hierarchy completion returns.
C4_OrphanRootRetained ==
    Completed =>
        \A c \in Range(selected_codes) :
            (/\ IsValidItem(Taxonomy(tax), c)
             /\ IsRootCode(c)
             /\ GetChildren(Taxonomy(tax), c) = <<>>)
            => c \in Range(RefinedValues)

\* C5. Breadth bound: the descendant list obtained for one selected code has
\* at most max_codes (25) entries, so one selected code contributes at most 25
\* descendants.
C5_BreadthBound ==
    \A i \in 1..Len(contributions) :
        /\ Len(contributions[i].descendants) <= MaxCodes
        /\ Len(contributions[i].family_filtered) <= MaxCodes

\* the bound cut the list of a code with more direct children than max_codes
C5_Witness ==
    /\ Completed
    /\ \E i \in 1..Len(contributions) :
          /\ contributions[i].valid
          /\ Len(GetChildren(Taxonomy(tax), contributions[i].code)) > MaxCodes
          /\ Len(contributions[i].descendants) = MaxCodes
          /\ Len(contributions[i].family_filtered) = MaxCodes

\* C6. No duplication: refined_codes holds each code at most once, and so do
\* the set all_codes and the sorted list the result is built from.
C6_NoDuplication ==
    /\ NoDuplicates(RefinedValues)
    /\ NoDuplicates(sorted_codes)
    /\ NoDuplicates(all_codes)

\* the selection named a code twice, and a selected code was also obtained as
\* a descendant of another selected code
C6_Witness ==
    /\ Completed
    /\ ~NoDuplicates(selected_codes)
    /\ \E i, j \in 1..Len(contributions) :
          /\ i # j
          /\ contributions[j].code \in Range(contributions[i].family_filtered)
    /\ Len(sorted_codes) >= 2

\* C7. Concentration: the codes select_relevant_codes returns, and the codes
\* of refined_codes and of all_codes, are in at most MAX_ROOT_FAMILIES root
\* families.
C7_Concentration ==
    /\ Cardinality(RootFamilies(selected_codes)) <= MAX_ROOT_FAMILIES
    /\ Cardinality(RootFamilies(RefinedValues) \cup RootFamilies(all_codes))
          <= MAX_ROOT_FAMILIES

\* the classification service named more families than MAX_ROOT_FAMILIES
C7_Witness ==
    /\ Completed
    /\ Cardinality(RootFamilies(ai_response)) > MAX_ROOT_FAMILIES
    /\ Cardinality(RootFamilies(selected_codes)) = MAX_ROOT_FAMILIES
    /\ all_codes # <<>>

-----------------------------------------------------------------------------
(* Properties of the validator *)

Applied == v_pc = "applied"

\* number of codes of the input in family fam
FamilyCount(fam) ==
    Cardinality({i \in 1..Len(v_in) : ExtractRootFamily(v_in[i]) = fam})

\* position of the first code of the input in family fam
FirstIndex(fam) ==
    CHOOSE i \in 1..Len(v_in) :
        /\ ExtractRootFamily(v_in[i]) = fam
        /\ \A j \in 1..(i - 1) : ExtractRootFamily(v_in[j]) # fam

\* the codes of the input whose family is in fams, in input order
InputCodesOf(fams) ==
    LET Keep(code) == ExtractRootFamily(code) \in fams IN SelectSeq(v_in, Keep)

\* C8. The validator only filters: its output is the input codes, in input
\* order and multiplicity, of min(K, number of families) families none of
\* which is less frequent than a family left out; so an input of at most K
\* families comes back unchanged (ten E11 codes and one Z79 code, K = 2), and
\* with K = 1 only the codes of the most frequent family remain.
C8_OnlyFilters ==
    Applied =>
        LET fams == RootFamilies(v_in)
            kept == RootFamilies(v_out)
        IN  /\ kept \subseteq fams
            /\ Cardinality(kept) = Min(v_K, Cardinality(fams))
            /\ \A f \in kept : \A g \in fams \ kept : FamilyCount(f) >= FamilyCount(g)
            /\ v_out = InputCodesOf(kept)
            /\ (Cardinality(fams) <= v_K => v_out = v_in)
            /\ (v_in = ElevenCodes /\ v_K = 2 => v_out = ElevenCodes)
            /\ (v_in = ElevenCodes /\ v_K = 1 => v_out = SubSeq(ElevenCodes, 1, 10))

\* ten E11 codes and one Z79 code went through the validator with K = 1 and
\* the Z79 code was dropped
C8_Witness ==
    /\ Applied
    /\ v_in = ElevenCodes
    /\ v_K = 1
    /\ Len(v_out) = 10
    /\ Sub(Z79, 4) \notin Range(v_out)

\* families ranked by descending count, equal counts by ascending family string
RankByFamilyString(fam) ==
    Cardinality({g \in RootFamilies(v_in) :
                    \/ FamilyCount(g) > FamilyCount(fam)
                    \/ (FamilyCount(g) = FamilyCount(fam) /\ StrLess(g, fam))}) + 1

\* families ranked by descending count, equal counts by first appearance
RankByFirstAppearance(fam) ==
    Cardinality({g \in RootFamilies(v_in) :
                    \/ FamilyCount(g) > FamilyCount(fam)
                    \/ (FamilyCount(g) = FamilyCount(fam) /\ FirstIndex(g) < FirstIndex(fam))}) + 1

\* C9 as claimed. The families kept are the first K in the order: descending
\* count, equal counts by ascending family string, whatever the input order.
C9_TiesByFamilyString ==
    Applied =>
        v_out = InputCodesOf({f \in RootFamilies(v_in) : RankByFamilyString(f) <= v_K})

\* C9. The families kept are the first K in the order: descending count,
\* equal counts in the order in which the families first appear in the input;
\* so when a tie straddles the K-th position the family appearing first is kept.
C9_TiesByFirstAppearance ==
    Applied =>
        v_out = InputCodesOf({f \in RootFamilies(v_in) : RankByFirstAppearance(f) <= v_K})

\* a tie straddled the K-th position and the family kept is the one that
\* appears first, although the family dropped is the smaller string
C9_Witness ==
    /\ Applied
    /\ \E f \in RootFamilies(v_out) : \E g \in RootFamilies(v_in) \ RootFamilies(v_out) :
          /\ FamilyCount(f) = FamilyCount(g)
          /\ FirstIndex(f) < FirstIndex(g)
          /\ StrLess(g, f)

-----------------------------------------------------------------------------
(* Determinism *)

\* C10. Determinism: a second invocation on the same answer of the
\* classification service and the same taxonomy yields the same validated
\* codes, the same sorted list of codes in the same order, the same
\* refined_codes and the same summary as the first, whatever the order in
\* which the set all_codes iterates in either invocation.
C10_Determinism ==
    (pc = "done" /\ run = 2) =>
        /\ selected_codes = first_run.selected_codes
        /\ sorted_codes = first_run.sorted_codes
        /\ refined_codes = first_run.refined_codes
        /\ clinical_summary = first_run.clinical_summary

\* both invocations completed a hierarchy of several codes, and the set
\* iterated in different orders
C10_Witness ==
    /\ pc = "done"
    /\ run = 2
    /\ Len(selected_codes) >= 2
    /\ Len(sorted_codes) >= 3
    /\ set_order # first_run.set_order
    /\ sorted_codes = first_run.sorted_codes

-----------------------------------------------------------------------------
(* Properties of the confidence scorer *)

Scored == s_pc = "scored"

\* C11. Score bounds: whatever the code, the selected codes, the candidate's
\* similarity score (below 0, above 1, not a number, missing) and the texts,
\* the value _calculate_confidence_score returns and the legacy value stored
\* as confidence_score lie in [0.0, 1.0], also on the exception path (0.60)
\* and after booster, penalty and calibration.
C11_ScoreBounds ==
    Scored =>
        /\ 0 <= s_out.improved /\ s_out.improved <= ScoreUnit
        /\ 0 <= s_out.legacy /\ s_out.legacy <= ScoreUnit

\* a candidate score above 1.0 was clamped and the booster applied to a
\* selected subcategory, giving a score just below 1.0
C11_Witness ==
    /\ Scored
    /\ s_in.cand.kind = "number"
    /\ s_in.cand.score > ScoreUnit
    /\ s_in.sub = "yes"
    /\ s_in.code \in Range(s_in.codes)
    /\ s_out.improved > 9900
    /\ s_out.improved <= ScoreUnit

-----------------------------------------------------------------------------
(* Properties of the stages and of their failures *)

\* the engine has returned to the handler
Returned == pc \in {"done", "responded"} /\ upload = "ok" /\ search_outcome = "ok"

\* the classification service was called in this run
Called == ai_calls > 0

\* the call raised, or its payload did not parse or did not fit the schema
FailedCall == ai_call \in {TransportFailure, NotJson} \cup SchemaInvalidPayloads

\* the call returned a payload that did not parse or did not fit the schema
MalformedCall == ai_call \in {NotJson} \cup SchemaInvalidPayloads

NoSelectionSummary == [text |-> "No codes selected by AI analysis.", counts |-> <<>>]

NoCandidatesSummary == [text |-> "No relevant codes found in vector search.", counts |-> <<>>]

\* C12. Classification failure is non-fatal: once the classification call
\* has raised, or returned a payload that does not parse or does not fit the
\* schema, the adapter has returned the empty selection and the orchestrator
\* has gone on without an exception.
C12_FailureNonFatal ==
    (Called /\ FailedCall) =>
        /\ pc \in {"done", "responded"}
        /\ ai_response = <<>>
        /\ selected_codes = <<>>

\* a payload naming a code but carrying a key the schema forbids was turned
\* into the empty selection
C12_Witness ==
    /\ pc = "done"
    /\ Called
    /\ ai_call \in SchemaInvalidPayloads
    /\ ai_call.selected_codes # <<>>
    /\ selected_codes = <<>>

\* C13. With an empty selection the orchestrator returns refined_codes = []
\* and the summary "No codes selected by AI analysis.", and hierarchy
\* completion (with the scoring in it) has not run for the request.
C13_EmptySelectionShortCircuit ==
    (Returned /\ Called /\ selected_codes = <<>>) =>
        /\ refined_codes = <<>>
        /\ clinical_summary = NoSelectionSummary
        /\ completion_runs = 0
        /\ all_codes = <<>>

\* the classification service answered with a well-formed empty list
C13_Witness ==
    /\ pc = "done"
    /\ Called
    /\ ai_call = AiPayload({"selected_codes"}, TRUE, <<>>)
    /\ clinical_summary = NoSelectionSummary
    /\ completion_runs = 0

\* C14. Stages run forward: the classification service has been called only
\* if the search returned at least one candidate, completion has run only
\* after a call that left a non-empty selection, and a search without
\* candidates ends the request normally with refined_codes = [] and the
\* summary "No relevant codes found in vector search.", the classification
\* service never called.
C14_StagesForward ==
    /\ (pc = "selecting" \/ Called) => (search_outcome = "ok" /\ candidates # <<>>)
    /\ completion_runs > 0 => (Called /\ selected_codes # <<>>)
    /\ (Returned /\ candidates = <<>>) =>
          /\ ai_calls = 0
          /\ completion_runs = 0
          /\ refined_codes = <<>>
          /\ clinical_summary = NoCandidatesSummary

\* a search without candidates ended the request without a call
C14_Witness ==
    /\ pc = "done"
    /\ search_outcome = "ok"
    /\ candidates = <<>>
    /\ ai_calls = 0
    /\ clinical_summary = NoCandidatesSummary

\* what the engine hands back: the result, or the fact that it raised
Outcome ==
    [raised |-> pc = "raised", refined_codes |-> refined_codes,
     clinical_summary |-> clinical_summary]

\* what the engine hands back when the classifier selects no codes
EmptySuccessOutcome ==
    [raised |-> FALSE, refined_codes |-> <<>>, clinical_summary |-> NoSelectionSummary]

\* C15 as claimed. After a response that is malformed or fails the schema,
\* what the caller of the pipeline gets differs from what it gets when the
\* classifier selects no codes.
C15_MalformedDistinct ==
    (pc \in {"done", "raised"} /\ Called /\ MalformedCall) => Outcome # EmptySuccessOutcome

\* C15. After a response that is malformed or fails the schema, the caller of
\* the pipeline gets exactly what it gets when the classifier selects no
\* codes: no exception, refined_codes = [], the summary "No codes selected by
\* AI analysis."; the handler then raises the same no-codes HTTPException.
C15_MalformedAsEmpty ==
    (Called /\ MalformedCall) =>
        /\ pc \in {"done", "responded"}
        /\ Outcome = EmptySuccessOutcome
        /\ pc = "responded" => http.raised = [kind |-> "HTTPException", status |-> 404]

\* a payload with a forbidden key ended as "No codes selected"
C15_Witness ==
    /\ pc = "responded"
    /\ Called
    /\ ai_call = AiPayload({"selected_codes", "reasoning"}, TRUE, <<Sub(A00, 1)>>)
    /\ clinical_summary = NoSelectionSummary
    /\ http.raised.status = 404

\* C16. In both handlers the HTTPException(404) raised for an empty result
\* reaches the caller with status 404 and the HTTPException(400) raised for a
\* rejected upload with status 400; neither comes out with status 500.
C16_DistinctStatuses ==
    (pc = "responded" /\ http.raised.kind = "HTTPException") =>
        /\ http.status = http.raised.status
        /\ http.status # 500

\* C17 as claimed. When completion leaves no refined codes, the summary is a
\* message explaining the empty result, as for the other two empty stages.
C17_EmptyCompletionExplained ==
    (Returned /\ completion_runs > 0 /\ refined_codes = <<>>) =>
        clinical_summary.text # "Identified"

\* C17. The orchestrator ends early with an explanatory summary at two
\* stages only, no candidates and no selection; when completion has run and
\* left no refined codes it returns the regular summary, which reports the
\* selected codes and their families and 0 total codes in 0 families.
C17_EmptyCompletionSummary ==
    Returned =>
        /\ (completion_runs > 0 /\ refined_codes = <<>>) =>
              clinical_summary =
                  [text |-> "Identified",
                   counts |-> <<Len(selected_codes),
                                Cardinality(RootFamilies(selected_codes)), 0, 0>>]
        /\ clinical_summary = NoCandidatesSummary <=> candidates = <<>>
        /\ clinical_summary = NoSelectionSummary <=>
              (candidates # <<>> /\ selected_codes = <<>>)

\* completion ran on a selection of several codes, collected codes and
\* refined none
C17_Witness ==
    /\ pc = "done"
    /\ completion_runs = 1
    /\ Len(selected_codes) >= 2
    /\ all_codes # <<>>
    /\ refined_codes = <<>>
    /\ clinical_summary.text = "Identified"

\* C18. No retry: in one run client.chat.completions.create is called at
\* most once, whether it succeeds, raises or returns a malformed payload.
C18_NoRetry == ai_calls <= 1

\* the call raised and the run ended after that one call
C18_Witness ==
    /\ pc = "done"
    /\ ai_call = TransportFailure
    /\ ai_calls = 1
    /\ selected_codes = <<>>

\* C20. Initialization failure is fatal: a failure while loading the
\* taxonomy leaves the application down, and whenever a handler has been
\* entered the start-up has completed with the taxonomy loaded.
C20_InitFailureFatal ==
    /\ boot.fault = "taxonomy" =>
          (boot.state = "failed" /\ pc = "down" /\ endpoint = "none" /\ http = NoResponse)
    /\ (pc \notin {"boot", "down"} \/ endpoint # "none") =>
          (boot.state = "serving" /\ taxonomy_loaded)

\* the taxonomy failed to load and the application stayed down
C20_Witness ==
    /\ pc = "down"
    /\ boot = [state |-> "failed", fault |-> "taxonomy"]
    /\ ~taxonomy_loaded

-----------------------------------------------------------------------------
(* Concurrent requests on the one engine main.py builds                    *)
(*                                                                         *)
(* A request is a coroutine; it gives way to other requests only where it  *)
(* awaits. Everything extract_codes_for_spreadsheet and the selector keep  *)
(* between two awaits is a local of the coroutine: c_req[r] is the frame   *)
(* of request r. The engine's own fields (vector_engine, ai_selector, the  *)
(* taxonomy) are set at start-up and only read afterwards.                 *)

\* requests in flight at once
NumRequests == 2

Requests == 1..NumRequests

\* what the classification service may answer to a request
ConcurrentCalls ==
    {TransportFailure,
     AiPayload({"selected_codes"}, TRUE, <<>>),
     AiPayload({"selected_codes"}, TRUE, <<Sub(A00, 1)>>),
     AiPayload({"selected_codes"}, TRUE, <<A00, R10>>)}

\* what search_codes may return to a request
ConcurrentCandidates ==
    {<<>>, <<[icd_code |-> Sub(A00, 1), score |-> 80]>>,
     <<[icd_code |-> R10, score |-> 60], [icd_code |-> A00, score |-> 40]>>}

NoResult ==
    [raised |-> FALSE, selected_codes |-> <<>>, sorted_codes |-> <<>>,
     refined_codes |-> <<>>, clinical_summary |-> [text |-> "", counts |-> <<>>]]

\* the frame of a request that has not started
NewFrame ==
    [pc |-> "start", search_in |-> "none", candidates_in |-> <<>>, call_in |-> NoCall,
     candidates |-> <<>>, prompt |-> <<>>, overlapped |-> FALSE, result |-> NoResult]

\* candidates kept in one place for all requests: what request 1 stored
EngineCandidates(frames, r) == frames[1].candidates

\* candidates is a local of extract_codes_for_spreadsheet (line 64): a request
\* reads what its own search returned
LocalCandidates(frames, r) == frames[r].candidates

\* lines 75-98 for one request, from its candidates and the answer to its call
ResultAfterSelection(t, cands, call, iteration) ==
    CHOOSE res \in
        {IF NoSelection(sel)
         THEN [raised |-> FALSE, selected_codes |-> sel, sorted_codes |-> <<>>,
               refined_codes |-> <<>>, clinical_summary |-> NoSelectionSummary]
         ELSE CHOOSE done \in
                {[raised |-> FALSE, selected_codes |-> sel, sorted_codes |-> walk,
                  refined_codes |-> RefineAllCodes(t, walk, sel).refined_codes,
                  clinical_summary |->
                      GenerateClinicalSummary(sel, RefineAllCodes(t, walk, sel).refined_codes)] :
                    walk \in {SortedAllCodes(iteration)}} : TRUE :
            sel \in {SelectRelevantCodes(cands, ExecuteAiSelection(call).codes)}} : TRUE

\* the orders in which all_codes may iterate for a request
IterationsFor(t, cands, call) ==
    IterationOrders(
        CollectAllCodes(t, SelectRelevantCodes(cands, ExecuteAiSelection(call).codes)).all_codes)

\* lines 64-73 for request r: search_codes holds no await, so the search and
\* the test of its result are one step
RequestSearches(r) ==
    /\ c_req[r].pc = "start"
    /\ \E so \in SearchOutcomes :
       \E cands \in (IF so = "raises" THEN {<<>>} ELSE ConcurrentCandidates) :
         c_req' = [c_req EXCEPT ![r] =
            [@ EXCEPT !.search_in = so,
                      !.candidates_in = cands,
                      !.candidates = cands,
                      !.pc = IF so = "raises" \/ NoCandidates(cands)
                             THEN "finished" ELSE "searched",
                      !.result = IF so = "raises" THEN [NoResult EXCEPT !.raised = TRUE]
                                 ELSE IF NoCandidates(cands)
                                 THEN [NoResult EXCEPT !.clinical_summary =
                                                           NoCandidatesSummary]
                                 ELSE NoResult]]
    /\ UNCHANGED <<pipelineVars, harnessVars, scorerVars, laterVars>>

\* ai_selector.py lines 34-63 for request r: the candidates are formatted into
\* the prompt and the coroutine waits for client.chat.completions.create
RequestCallsClassifier(r) ==
    /\ c_req[r].pc = "searched"
    /\ c_req' = [c_req EXCEPT ![r] =
            [@ EXCEPT !.prompt = LocalCandidates(c_req, r), !.pc = "awaiting"]]
    /\ UNCHANGED <<pipelineVars, harnessVars, scorerVars, laterVars>>

\* the answer to the call of request r arrives; the rest of the request runs
\* without another await
RequestResumes(r) ==
    /\ c_req[r].pc = "awaiting"
    /\ \E call \in ConcurrentCalls :
       \E cands \in {LocalCandidates(c_req, r)} :
       \E iteration \in IterationsFor(Taxonomy(tax), cands, call) :
         c_req' = [c_req EXCEPT ![r] =
            [@ EXCEPT !.call_in = call,
                      !.overlapped = \E q \in Requests \ {r} : c_req[q].pc = "awaiting",
                      !.pc = "finished",
                      !.result = ResultAfterSelection(Taxonomy(tax), cands, call,
                                                      iteration)]]
    /\ UNCHANGED <<pipelineVars, harnessVars, scorerVars, laterVars>>

ConcurrentInit ==
    /\ tax \in TaxonomyNames
    /\ PipelineIdle
    /\ HarnessIdle
    /\ ScorerIdle
    /\ LaterIdle
    /\ c_req = [r \in Requests |-> NewFrame]

ConcurrentNext ==
    \E r \in Requests :
        \/ RequestSearches(r)
        \/ RequestCallsClassifier(r)
        \/ RequestResumes(r)

ConcurrentSpec == ConcurrentInit /\ [][ConcurrentNext]_vars

\* what a request returns when it runs alone with the same search result and
\* the same answer of the classification service
ResultAlone(t, so, cands, call) ==
    IF so = "raises" THEN [NoResult EXCEPT !.raised = TRUE]
    ELSE IF cands = <<>> THEN [NoResult EXCEPT !.clinical_summary = NoCandidatesSummary]
    ELSE LET initial == IF call \in {TransportFailure, NotJson} \cup SchemaInvalidPayloads
                        THEN <<>> ELSE call.selected_codes
             sel == ValidateRootFamilyFocus(initial, MAX_ROOT_FAMILIES)
         IN  IF sel = <<>>
             THEN [NoResult EXCEPT !.clinical_summary = NoSelectionSummary]
             ELSE ResultAfterSelection(t, cands, call, CollectAllCodes(t, sel).all_codes)

\* C19. Request isolation: whatever the interleaving of the requests at
\* their awaits, a finished request has returned what it returns when run
\* alone on its own search result and its own answer from the classification
\* service, the prompt it sent was built from its own candidates, and a
\* request that has not started holds nothing of another request.
C19_RequestIsolation ==
    \A r \in DOMAIN c_req :
        /\ c_req[r].pc = "finished" =>
              c_req[r].result = ResultAlone(Taxonomy(tax), c_req[r].search_in,
                                            c_req[r].candidates_in, c_req[r].call_in)
        /\ c_req[r].pc \in {"awaiting", "finished"} =>
              (c_req[r].search_in = "ok" /\ c_req[r].candidates_in # <<>>
                  => c_req[r].prompt = c_req[r].candidates_in)
        /\ c_req[r].pc = "start" => c_req[r] = NewFrame

\* two requests with different candidates and different answers finished
\* with different results, one resumed while the other waited at its await
C19_Witness ==
    /\ c_req # <<>>
    /\ c_req[1].pc = "finished"
    /\ c_req[2].pc = "finished"
    /\ c_req[1].candidates_in # c_req[2].candidates_in
    /\ c_req[1].candidates_in # <<>>
    /\ c_req[2].candidates_in # <<>>
    /\ c_req[1].call_in # c_req[2].call_in
    /\ c_req[1].result.selected_codes # <<>>
    /\ c_req[2].result.selected_codes # <<>>
    /\ c_req[1].result # c_req[2].result
    /\ c_req[1].overlapped

-----------------------------------------------------------------------------
(* Hierarchy completion under failing taxonomy lookups (lines 123-153) *)

\* the iterations of the first loop that ended at line 128 or in the handler
\* of line 151
FailedIterations == {i \in 1..Len(contributions) : ~contributions[i].valid}

\* the iterations whose children lookup raised inside _get_nearby_descendants
ChildrenFailedIterations ==
    {i \in 1..Len(contributions) : contributions[i].lookup = "children_raised"}

\* every selected code got its iteration, in order, each starting from the
\* set the one before left, and the set of the last one is the result
PassNotAborted ==
    /\ Len(contributions) = Len(selected_codes)
    /\ \A i \in 1..Len(contributions) :
          /\ contributions[i].code = selected_codes[i]
          /\ contributions[i].before =
                (IF i = 1 THEN <<>> ELSE contributions[i - 1].after)
    /\ contributions # <<>> => all_codes = contributions[Len(contributions)].after

\* C21 as stated. A taxonomy failure on one selected code never aborts the
\* pass, every other selected code is still processed, and a code whose
\* validity or children lookup failed is not in the resulting set all_codes.
C21_FailedCodeExcluded ==
    Completed =>
        /\ PassNotAborted
        /\ \A i \in FailedIterations \cup ChildrenFailedIterations :
              contributions[i].code \notin Range(all_codes)

\* C21, amended. A taxonomy failure on one selected code never aborts the
\* pass and every other selected code is still processed; a code reported
\* invalid, or whose validity lookup raises, is recorded in icd_errors and its
\* iteration adds nothing to all_codes, while a code whose children lookup
\* raises is kept in all_codes (root or not) without descendants.
C21_FailureIsolated ==
    Completed =>
        /\ PassNotAborted
        /\ \A i \in FailedIterations :
              /\ contributions[i].after = contributions[i].before
              /\ contributions[i].code \in Range(icd_errors)
        /\ \A i \in ChildrenFailedIterations :
              /\ contributions[i].descendants = <<>>
              /\ contributions[i].code \in Range(contributions[i].after)
              /\ contributions[i].code \in Range(all_codes)
        /\ Len(icd_errors) = Cardinality(FailedIterations)
        /\ \A i \in 1..Len(contributions) :
              contributions[i].valid =>
                  Range(contributions[i].family_filtered) \subseteq Range(all_codes)

\* a code whose validity lookup raised was followed by a code that was
\* expanded into all_codes
C21_Witness ==
    /\ Completed
    /\ Len(contributions) = 2
    /\ contributions[1].lookup = "raised"
    /\ contributions[2].lookup = "ok"
    /\ contributions[2].family_filtered # <<>>
    /\ Range(contributions[2].family_filtered) \subseteq Range(all_codes)
    /\ contributions[1].code \notin Range(all_codes)

-----------------------------------------------------------------------------
(* VectorSearchEngine.search_codes and _ensure_deterministic_ordering *)

\* most matches the index returns in the model
MaxMatches == 3

\* MINIMUM_SCORE_THRESHOLD = 0.1, in ten-thousandths
MINIMUM_SCORE_THRESHOLD == 1000

\* codes the index may hold: two subcategories, a category without children,
\* and a code the library does not know
MatchCodes == {Sub(A00, 0), Sub(A00, 1), R10, Q99}

\* what a match may carry for its code: a score just below the threshold, at
\* the threshold or above it, and above it without metadata
MatchVariants ==
    {[score |-> 999, metadata |-> "present"], [score |-> 1000, metadata |-> "present"],
     [score |-> 5500, metadata |-> "present"], [score |-> 5500, metadata |-> "none"]}

\* search_result.matches: up to MaxMatches matches with distinct ids, in the
\* order the index returns them
MatchLists ==
    {m \in UNION {[1..n -> [id : MatchCodes, variant : MatchVariants]] : n \in 0..MaxMatches} :
        \A i, j \in DOMAIN m : i # j => m[i].id # m[j].id}

\* the same matches in every order
Reorderings(m) ==
    {[i \in DOMAIN m |-> m[p[i]]] :
        p \in {f \in [DOMAIN m -> DOMAIN m] : \A i, j \in DOMAIN m : i # j => f[i] # f[j]}}

\* line 53: score < MINIMUM_SCORE_THRESHOLD
LowScore(match) == match.variant.score < MINIMUM_SCORE_THRESHOLD

\* lines 59-70: building the candidate raises (match.metadata is None)
CandidateRaises(match) == match.variant.metadata = "none"

\* position of candidate i in a stable sort on -score alone
RankByScoreOnly(cands, i) ==
    Cardinality({j \in 1..Len(cands) :
                    \/ cands[j].score > cands[i].score
                    \/ (cands[j].score = cands[i].score /\ j < i)}) + 1

\* position of candidate i in sorted(candidates, key=(-score, icd_code)):
\* equal keys keep their order
RankByScoreThenCode(cands, i) ==
    Cardinality({j \in 1..Len(cands) :
                    \/ cands[j].score > cands[i].score
                    \/ (cands[j].score = cands[i].score
                            /\ StrLess(cands[j].icd_code, cands[i].icd_code))
                    \/ (cands[j].score = cands[i].score
                            /\ cands[j].icd_code = cands[i].icd_code /\ j < i)}) + 1

\* an ordering by descending score that leaves ties as the index gave them
OrderByScoreOnly(cands) ==
    CHOOSE r \in {Arrange(cands, rank) :
                    rank \in {[i \in 1..Len(cands) |-> RankByScoreOnly(cands, i)]}} : TRUE

\* _ensure_deterministic_ordering
EnsureDeterministicOrdering(cands) ==
    CHOOSE r \in {Arrange(cands, rank) :
                    rank \in {[i \in 1..Len(cands) |-> RankByScoreThenCode(cands, i)]}} : TRUE

\* lines 48-72: validated_candidates before the ordering
ValidatedCandidates(t, matches) ==
    LET Keep(match) == /\ ~LowScore(match)
                       /\ IsValidItem(t, match.id)
                       /\ ~CandidateRaises(match)
        kept == SelectSeq(matches, Keep)
    IN  [i \in 1..Len(kept) |-> [icd_code |-> kept[i].id, score |-> kept[i].variant.score]]

\* search_codes from the matches on: is_valid_item at line 58 is outside the
\* try, so a validity lookup that raises ends the search
SearchCodes(t, matches) ==
    IF \E i \in 1..Len(matches) :
          ~LowScore(matches[i]) /\ IsValidItemRaises(t, matches[i].id)
    THEN [raised |-> TRUE, candidates |-> <<>>]
    ELSE [raised |-> FALSE,
          candidates |-> EnsureDeterministicOrdering(ValidatedCandidates(t, matches))]

SearchInit ==
    /\ tax \in {"icd", "faulty"}
    /\ PipelineIdle
    /\ HarnessIdle
    /\ ScorerIdle
    /\ ConcurrentIdle
    /\ FormatIdle
    /\ WalkIdle
    /\ LoaderIdle
    /\ q_pc = "ready"
    /\ q_matches \in MatchLists
    /\ q_out = NoSearchResult
    /\ q_reordered = <<>>
    /\ q_again = NoSearchResult

\* search_codes on the matches as the index returned them
ApplySearch ==
    /\ q_pc = "ready"
    /\ q_out' = SearchCodes(Taxonomy(tax), q_matches)
    /\ q_pc' = "answered"
    /\ UNCHANGED <<q_matches, q_reordered, q_again>>
    /\ UNCHANGED <<pipelineVars, harnessVars, scorerVars, c_req, formatVars, walkVars,
                   loaderVars>>

\* the same search again, the index returning the same matches in some order
SearchAgain ==
    /\ q_pc = "answered"
    /\ \E m \in Reorderings(q_matches) :
         /\ q_reordered' = m
         /\ q_again' = SearchCodes(Taxonomy(tax), m)
    /\ q_pc' = "again"
    /\ UNCHANGED <<q_matches, q_out>>
    /\ UNCHANGED <<pipelineVars, harnessVars, scorerVars, c_req, formatVars, walkVars,
                   loaderVars>>

SearchNext == ApplySearch \/ SearchAgain

SearchSpec == SearchInit /\ [][SearchNext]_vars

\* the list is in descending order of score, equal scores in ascending
\* order of code
OrderedByScoreThenCode(cands) ==
    \A i \in 1..(Len(cands) - 1) :
        \/ cands[i].score > cands[i + 1].score
        \/ (cands[i].score = cands[i + 1].score
                /\ StrLess(cands[i].icd_code, cands[i + 1].icd_code))

\* C22. The candidate list search_codes returns is in descending order of
\* score with equal scores in ascending order of code, and it is the same
\* list for every order in which the index returns the same matches (with
\* distinct codes).
C22_DeterministicOrdering ==
    /\ q_pc \in {"answered", "again"} => OrderedByScoreThenCode(q_out.candidates)
    /\ q_pc = "again" => q_again = q_out

\* the index returned the same matches in another order, two of the returned
\* candidates have the same score, and a match was filtered out
C22_Witness ==
    /\ q_pc = "again"
    /\ q_reordered # q_matches
    /\ Len(q_out.candidates) >= 2
    /\ Len(q_out.candidates) < Len(q_matches)
    /\ q_out.candidates[1].score = q_out.candidates[2].score
    /\ \E i, j \in DOMAIN q_matches :
          /\ i < j
          /\ q_matches[i].id = q_out.candidates[2].icd_code
          /\ q_matches[j].id = q_out.candidates[1].icd_code

-----------------------------------------------------------------------------
(* AICodeSelector._smart_candidate_ordering and _format_candidates_for_ai  *)
(*                                                                         *)
(* The source text, the descriptions and the clinical context are Python   *)
(* str values, kept as sequences of characters like the codes.             *)

\* longest candidate list handed to the adapter in the model
MaxCands == 3

\* candidate['rich_text'][:200]
ContextLength == 200

UpperLetters == <<"A", "B", "C", "D", "E", "F", "G", "H", "I", "J", "K", "L", "M", "N", "O", "P",
        "Q", "R", "S", "T", "U", "V", "W", "X", "Y", "Z">>

LowerLetters == <<"a", "b", "c", "d", "e", "f", "g", "h", "i", "j", "k", "l", "m", "n", "o", "p",
        "q", "r", "s", "t", "u", "v", "w", "x", "y", "z">>

\* str.lower()
Lower(s) ==
    [i \in 1..Len(s) |->
        IF \E k \in 1..26 : UpperLetters[k] = s[i]
        THEN LowerLetters[CHOOSE k \in 1..26 : UpperLetters[k] = s[i]]
        ELSE s[i]]

\* the characters str.strip() and str.split() take for whitespace
Whitespace == {" ", "\n", "\t", "\r"}

\* str.strip()
Strip(s) ==
    LET inked == {i \in 1..Len(s) : s[i] \notin Whitespace}
    IN  IF inked = {} THEN <<>>
        ELSE SubSeq(s, CHOOSE i \in inked : \A j \in inked : i <= j,
                       CHOOSE i \in inked : \A j \in inked : i >= j)

\* str.replace(ch, '')
RemoveChar(s, ch) == LET Keep(c) == c # ch IN SelectSeq(s, Keep)

\* str.replace(a, b) for single characters
ReplaceChar(s, a, b) == [i \in 1..Len(s) |-> IF s[i] = a THEN b ELSE s[i]]

\* str.split(): the maximal runs without whitespace, in order
Split(s) ==
    LET starts == {i \in 1..Len(s) :
                      s[i] \notin Whitespace /\ (i = 1 \/ s[i - 1] \in Whitespace)}
        StartOf(k) == CHOOSE i \in starts : Cardinality({j \in starts : j < i}) = k - 1
        EndOf(i) == CHOOSE j \in i..Len(s) :
                        /\ \A m \in i..j : s[m] \notin Whitespace
                        /\ (j = Len(s) \/ s[j + 1] \in Whitespace)
    IN  [k \in 1..Cardinality(starts) |-> SubSeq(s, StartOf(k), EndOf(StartOf(k)))]

\* sub in s
Contains(sub, s) ==
    \E i \in 1..(Len(s) - Len(sub) + 1) : SubSeq(s, i, i + Len(sub) - 1) = sub

\* s.startswith(p)
StartsWith(s, p) == Len(p) <= Len(s) /\ SubSeq(s, 1, Len(p)) = p

\* lines 150-151: title_clean
TitleClean(medical_text) ==
    ReplaceChar(RemoveChar(RemoveChar(Strip(Lower(medical_text)), ","), "."), "-", " ")

\* line 154: title_words
TitleWords(medical_text) ==
    LET Long(word) == Len(word) > 3 IN SelectSeq(Split(TitleClean(medical_text)), Long)

\* line 155: primary_term
PrimaryTerm(medical_text) ==
    CHOOSE r \in
        {IF title_words # <<>> THEN title_words[1] ELSE TitleClean(medical_text) :
            title_words \in {TitleWords(medical_text)}} : TRUE

\* lines 162-170: prefix_score
PrefixScore(primary_term, description) ==
    IF Len(primary_term) >= 4
    THEN LET prefix == IF Len(primary_term) >= 6 THEN Prefix(primary_term, 6)
                       ELSE Prefix(primary_term, 4)
         IN  IF StartsWith(description, prefix) THEN 5
             ELSE IF Contains(prefix, description) THEN 2
             ELSE 0
    ELSE 0

\* lines 173-179: keyword_score
KeywordScore(primary_term, title_words, description) ==
    (IF Contains(primary_term, description) THEN 3 ELSE 0)
        + (IF Len(title_words) > 1
           THEN Cardinality({k \in 2..Len(title_words) :
                                Contains(title_words[k], description)})
           ELSE 0)

\* calculate_relevance_score: the two scores and the code of the key
CalculateRelevanceScore(primary_term, title_words, candidate) ==
    CHOOSE r \in
        {[prefix_score |-> PrefixScore(primary_term, description),
          keyword_score |-> KeywordScore(primary_term, title_words, description),
          code |-> candidate.icd_code] :
            description \in {Lower(candidate.description)}} : TRUE

\* the two scores of a candidate for a text
RelevanceScores(medical_text, candidate) ==
    LET key == CalculateRelevanceScore(PrimaryTerm(medical_text),
                                       TitleWords(medical_text), candidate)
    IN  [prefix_score |-> key.prefix_score, keyword_score |-> key.keyword_score]

\* key a sorts before key b in the order of the 3-tuples
\* (-prefix_score, -keyword_score, code)
RelevanceLess(a, b) ==
    \/ a.prefix_score > b.prefix_score
    \/ (a.prefix_score = b.prefix_score /\ a.keyword_score > b.keyword_score)
    \/ (a.prefix_score = b.prefix_score /\ a.keyword_score = b.keyword_score
            /\ StrLess(a.code, b.code))

\* key a sorts before key b when the code is left out of the key
RelevanceLessWithoutCode(a, b) ==
    \/ a.prefix_score > b.prefix_score
    \/ (a.prefix_score = b.prefix_score /\ a.keyword_score > b.keyword_score)

\* the sort keys of the candidates, in the order of the candidates
RelevanceKeys(medical_text, cands) ==
    CHOOSE r \in
        {[i \in 1..Len(cands) |->
            CalculateRelevanceScore(primary_term, title_words, cands[i])] :
            primary_term \in {PrimaryTerm(medical_text)},
            title_words \in {TitleWords(medical_text)}} : TRUE

\* an ordering on the two scores alone; equal scores keep the input order
OrderingWithoutCode(cands, medical_text) ==
    CHOOSE r \in
        {Arrange(cands, [i \in 1..Len(cands) |->
                            Cardinality({j \in 1..Len(cands) :
                                \/ RelevanceLessWithoutCode(keys[j], keys[i])
                                \/ (~RelevanceLessWithoutCode(keys[i], keys[j]) /\ j < i)})
                                + 1]) :
            keys \in {RelevanceKeys(medical_text, cands)}} : TRUE

\* _smart_candidate_ordering: sorted(candidates, key=calculate_relevance_score),
\* equal keys keeping the input order
SmartCandidateOrdering(cands, medical_text) ==
    CHOOSE r \in
        {Arrange(cands, [i \in 1..Len(cands) |->
                            Cardinality({j \in 1..Len(cands) :
                                \/ RelevanceLess(keys[j], keys[i])
                                \/ (~RelevanceLess(keys[i], keys[j]) /\ j < i)}) + 1]) :
            keys \in {RelevanceKeys(medical_text, cands)}} : TRUE

\* lines 200-219: the parts of one line, joined by " | " in the source
FormatCandidate(candidate) ==
    <<<<"Code: ", candidate.icd_code>>, <<"Description: ", candidate.description>>>>
        \o (IF candidate.rich_text # <<>>
            THEN <<<<"Clinical Context: ",
                     Prefix(candidate.rich_text, ContextLength) \o <<".", ".", ".">>>>>>
            ELSE <<>>)
        \o (IF candidate.chapter # <<>> THEN <<<<"Chapter: ", candidate.chapter>>>>
            ELSE <<>>)
        \o (IF candidate.section # <<>> THEN <<<<"Section: ", candidate.section>>>>
            ELSE <<>>)

\* _format_candidates_for_ai: the lines, joined by "\n" in the source
FormatCandidatesForAi(cands) == [i \in 1..Len(cands) |-> FormatCandidate(cands[i])]

\* lines 34-37 of select_relevant_codes: the listing sent for a text and a
\* candidate list
FormattedListing(medical_text, cands) ==
    FormatCandidatesForAi(SmartCandidateOrdering(cands, medical_text))

\* source texts: one word, several words with punctuation, capitals and
\* surrounding blanks, a word of three letters, and the empty text
FormatTexts ==
    {<<"C", "h", "o", "l", "e", "r", "a">>,
     <<" ", "T", "y", "p", "h", "o", "i", "d", "-", "F", "e", "v", "e", "r", ",", " ", "a", "c",
             "u", "t", "e", ".", " ">>,
     <<"f", "l", "u">>,
     <<>>}

LongContext == [i \in 1..(ContextLength + 1) |-> "x"]

\* candidates: descriptions that start with the primary term, contain it or
\* do not; with and without clinical context, chapter and section; the last
\* carries a code another candidate carries too
FormatCandidates ==
    {[icd_code |-> Sub(A00, 0), description |-> <<"C", "h", "o", "l", "e", "r", "a", " ", "d",
            "u", "e", " ", "t", "o", " ", "V", "i", "b", "r", "i", "o">>,
      rich_text |-> <<"f", "e", "v", "e", "r">>, chapter |-> <<"I">>, section |-> <<>>],
     [icd_code |-> Sub(A00, 1), description |-> <<"C", "h", "o", "l", "e", "r", "a", ",", " ",
             "u", "n", "s", "p", "e", "c", "i", "f", "i", "e", "d">>,
      rich_text |-> <<>>, chapter |-> <<>>, section |-> <<"A", "0", "0">>],
     [icd_code |-> A01, description |-> <<"T", "y", "p", "h", "o", "i", "d", " ", "f", "e", "v",
             "e", "r", " ", "o", "r", " ", "c", "h", "o", "l", "e", "r", "a">>,
      rich_text |-> LongContext, chapter |-> <<"I">>, section |-> <<"A", "0", "1">>],
     [icd_code |-> R10, description |-> <<"A", "c", "u", "t", "e", " ", "p", "a", "i", "n", ",",
             " ", "f", "l", "u", "-", "l", "i", "k", "e">>,
      rich_text |-> <<>>, chapter |-> <<>>, section |-> <<>>],
     [icd_code |-> Sub(A00, 1), description |-> <<"O", "t", "h", "e", "r", " ", "c", "h", "o",
             "l", "e", "r", "a">>,
      rich_text |-> <<>>, chapter |-> <<>>, section |-> <<>>]}

CandidateInputs == SeqsUpTo(FormatCandidates, MaxCands)

NoListing == <<>>

FormatInit ==
    /\ tax = "icd"
    /\ PipelineIdle
    /\ HarnessIdle
    /\ ScorerIdle
    /\ ConcurrentIdle
    /\ SearchIdle
    /\ WalkIdle
    /\ LoaderIdle
    /\ f_pc = "ready"
    /\ f_in \in [text : FormatTexts, candidates : CandidateInputs]
    /\ f_out = NoListing
    /\ f_permuted = <<>>
    /\ f_again = NoListing

\* the listing for the text and the candidates as they were handed over
ApplyFormat ==
    /\ f_pc = "ready"
    /\ f_out' = FormattedListing(f_in.text, f_in.candidates)
    /\ f_pc' = "formatted"
    /\ UNCHANGED <<f_in, f_permuted, f_again>>
    /\ UNCHANGED <<pipelineVars, harnessVars, scorerVars, c_req, searchVars, walkVars,
                   loaderVars>>

\* the listing for the same text and the same candidates in some order
FormatAgain ==
    /\ f_pc = "formatted"
    /\ \E cands \in Reorderings(f_in.candidates) :
         /\ f_permuted' = cands
         /\ f_again' = FormattedListing(f_in.text, cands)
    /\ f_pc' = "again"
    /\ UNCHANGED <<f_in, f_out>>
    /\ UNCHANGED <<pipelineVars, harnessVars, scorerVars, c_req, searchVars, walkVars,
                   loaderVars>>

FormatNext == ApplyFormat \/ FormatAgain

FormatSpec == FormatInit /\ [][FormatNext]_vars

DistinctCodes(cands) ==
    \A i, j \in 1..Len(cands) : i # j => cands[i].icd_code # cands[j].icd_code

\* the code a line of the listing names
CodeOfLine(line) == line[1][2]

\* C23. The listing sent for a text and a candidate list has one line per
\* candidate and nothing else; the same text and the same list give the same
\* listing; and when the candidates carry distinct codes, every order of the
\* same candidates gives the same listing.
C23_ListingDeterministic ==
    /\ f_pc \in {"formatted", "again"} =>
          /\ Len(f_out) = Len(f_in.candidates)
          /\ \A c \in Range(f_in.candidates) :
                Cardinality({i \in 1..Len(f_out) : f_out[i] = FormatCandidate(c)})
                    = Cardinality({i \in 1..Len(f_in.candidates) :
                                      FormatCandidate(f_in.candidates[i])
                                          = FormatCandidate(c)})
    /\ f_pc = "again" =>
          /\ f_permuted = f_in.candidates => f_again = f_out
          /\ DistinctCodes(f_in.candidates) => f_again = f_out

\* three candidates with distinct codes, two of them with equal scores for
\* the text, were handed over in another order, and the listing does not
\* follow the order in which they were first handed over
C23_Witness ==
    /\ f_pc = "again"
    /\ Len(f_in.candidates) = 3
    /\ DistinctCodes(f_in.candidates)
    /\ f_permuted # f_in.candidates
    /\ f_out # FormatCandidatesForAi(f_in.candidates)
    /\ f_again # FormatCandidatesForAi(f_permuted)
    /\ \E i, j \in 1..3 :
          /\ i # j
          /\ RelevanceScores(f_in.text, f_in.candidates[i])
                = RelevanceScores(f_in.text, f_in.candidates[j])
          /\ RelevanceScores(f_in.text, f_in.candidates[i]).prefix_score > 0

-----------------------------------------------------------------------------
(* Properties of the scores the second loop computes (lines 173-184) *)

\* the five-factor scorer ran to its end for a code one candidate carries
\* with a number as its score
ScoredCandidate ==
    /\ Scored
    /\ s_in.sub # "raises"
    /\ s_in.cand.kind = "number"

\* C24. The confidence_score the second loop hands to RefinedCodeValidation
\* for a code is the value the five-factor scorer _calculate_confidence_score
\* returned for that code, the selected codes, the candidates and the text.
C24_FiveFactorScoreCarried ==
    Scored => s_out.confidence_score = s_out.improved

\* the values _calculate_confidence_score may return for the scored code when
\* its candidate carries the similarity score x, all else as it was
ScoresWithSimilarity(x) ==
    CalculateConfidenceScore(s_in.code, s_in.codes, s_in.sub, s_in.cat,
                             [kind |-> "number", score |-> x], s_in.sem)

\* C25. A code one of the candidates carries contributes to the similarity
\* factor its own score, normalised from [0.1, 1.0] into [0, 1] and clamped,
\* never the fallback value of the codes no candidate carries; and with all
\* else equal the score of the code does not go down when the similarity
\* score of its candidate goes up.
C25_SimilarityMonotone ==
    ScoredCandidate =>
        /\ s_out.vector_search = VectorScore(s_in.cand)
        /\ \A x \in RawScores :
              x > s_in.cand.score =>
                  \A higher \in ScoresWithSimilarity(x) : higher >= s_out.improved

-----------------------------------------------------------------------------
(* _complete_hierarchy_with_family_focus and _get_nearby_descendants, one  *)
(* taxonomy lookup at a time                                               *)

\* the lists the pass may be called with: what the validator lets through
WalkSelections ==
    {ValidateRootFamilyFocus(codes, MAX_ROOT_FAMILIES) : codes \in SelectionInputs} \ {<<>>}

\* no selected code gets more lookups than this in the model
LookupCap == MaxCodes + 3

\* a loop that tries a child again when its lookup raised
SameChildAfterFailure(j, raised) == IF raised THEN j ELSE j + 1

\* line 230: the for loop goes on to the next child, whatever the lookup did
NextChild(j, raised) == j + 1

\* lines 230-232: the loop over sorted_children has a child left and a slot
LoopContinues(st, sorted_children, j) ==
    j <= Len(sorted_children) /\ st.remaining_slots > 0

WalkInit ==
    /\ tax \in TaxonomyNames
    /\ PipelineIdle
    /\ HarnessIdle
    /\ ScorerIdle
    /\ ConcurrentIdle
    /\ SearchIdle
    /\ FormatIdle
    /\ LoaderIdle
    /\ w_pc = "validity"
    /\ w_sel \in WalkSelections
    /\ w_i = 1
    /\ w_st = NothingCollected
    /\ w_trav = NoTraversal
    /\ w_children = <<>>
    /\ w_j = 0
    /\ w_lookups = [i \in 1..Len(w_sel) |-> 0]
    /\ w_walk = <<>>
    /\ w_k = 0
    /\ w_ref = NothingRefined

walkOthers == <<pipelineVars, harnessVars, scorerVars, c_req, searchVars, formatVars,
                loaderVars>>

\* lines 125-128, 151-153: is_valid_item for the selected code; an invalid
\* code, or a lookup that raises, ends the iteration
CheckValidity ==
    /\ w_pc = "validity"
    /\ w_i <= Len(w_sel)
    /\ w_lookups' = [w_lookups EXCEPT ![w_i] = @ + 1]
    /\ IF IsValidItemRaises(Taxonomy(tax), w_sel[w_i])
          \/ ~IsValidItem(Taxonomy(tax), w_sel[w_i])
       THEN /\ w_st' = RejectCode(Taxonomy(tax), w_st, w_sel[w_i])
            /\ w_i' = w_i + 1
            /\ UNCHANGED w_pc
       ELSE /\ w_pc' = "children"
            /\ UNCHANGED <<w_st, w_i>>
    /\ UNCHANGED <<w_sel, w_trav, w_children, w_j, w_walk, w_k, w_ref>>
    /\ UNCHANGED walkOthers

\* lines 218-228, 247-249: get_children for the selected code; when it raises
\* the code has no descendants; the loop over the children is entered with a
\* slot left and a child to look at
LookupChildren ==
    /\ w_pc = "children"
    /\ w_lookups' = [w_lookups EXCEPT ![w_i] = @ + 1]
    /\ IF GetChildrenRaises(Taxonomy(tax), w_sel[w_i])
       THEN /\ w_st' = Contribute(Taxonomy(tax), w_st, w_sel[w_i], <<>>,
                                  RootFamilies(w_sel))
            /\ w_i' = w_i + 1
            /\ w_pc' = "validity"
            /\ UNCHANGED <<w_trav, w_children, w_j>>
       ELSE \E direct_children \in {GetChildren(Taxonomy(tax), w_sel[w_i])} :
            /\ w_trav' = [all_descendants |-> direct_children,
                          remaining_slots |-> MaxCodes - Len(direct_children),
                          fetched |-> <<>>]
            /\ w_children' = IF MaxCodes - Len(direct_children) > 0
                                /\ direct_children # <<>>
                             THEN Sorted(direct_children) ELSE <<>>
            /\ w_j' = 1
            /\ w_pc' = "grandchildren"
            /\ UNCHANGED <<w_st, w_i>>
    /\ UNCHANGED <<w_sel, w_walk, w_k, w_ref>>
    /\ UNCHANGED walkOthers

\* lines 230-241: get_children for the next child
FetchGrandchildren ==
    /\ w_pc = "grandchildren"
    /\ LoopContinues(w_trav, w_children, w_j)
    /\ w_lookups[w_i] < LookupCap
    /\ w_lookups' = [w_lookups EXCEPT ![w_i] = @ + 1]
    /\ w_trav' = TakeGrandchildren(Taxonomy(tax), w_trav, w_children[w_j])
    /\ w_j' = NextChild(w_j, GetChildrenRaises(Taxonomy(tax), w_children[w_j]))
    /\ UNCHANGED <<w_pc, w_sel, w_i, w_st, w_children, w_walk, w_k, w_ref>>
    /\ UNCHANGED walkOthers

\* lines 244, 251 and 132-149: the loop is left, the descendants are cut to
\* max_codes, filtered and added; the first loop goes on to the next code
FinishCode ==
    /\ w_pc = "grandchildren"
    /\ ~LoopContinues(w_trav, w_children, w_j)
    /\ w_st' = Contribute(Taxonomy(tax), w_st, w_sel[w_i],
                          Prefix(w_trav.all_descendants, MaxCodes), RootFamilies(w_sel))
    /\ w_i' = w_i + 1
    /\ w_pc' = "validity"
    /\ UNCHANGED <<w_sel, w_trav, w_children, w_j, w_lookups, w_walk, w_k, w_ref>>
    /\ UNCHANGED walkOthers

\* lines 155-162: the first loop is over; the second walks sorted(all_codes)
StartSecondLoop ==
    /\ w_pc = "validity"
    /\ w_i > Len(w_sel)
    /\ w_walk' = Sorted(w_st.all_codes)
    /\ w_k' = 1
    /\ w_pc' = "refining"
    /\ UNCHANGED <<w_sel, w_i, w_st, w_trav, w_children, w_j, w_lookups, w_ref>>
    /\ UNCHANGED walkOthers

\* lines 163-187: the body of the second loop for the next code
RefineNext ==
    /\ w_pc = "refining"
    /\ w_k <= Len(w_walk)
    /\ w_ref' = RefineOneCode(Taxonomy(tax), w_ref, w_walk[w_k], w_sel)
    /\ w_k' = w_k + 1
    /\ UNCHANGED <<w_pc, w_sel, w_i, w_st, w_trav, w_children, w_j, w_lookups, w_walk>>
    /\ UNCHANGED walkOthers

\* lines 189-196: refined_codes is returned
ReturnRefined ==
    /\ w_pc = "refining"
    /\ w_k > Len(w_walk)
    /\ w_pc' = "returned"
    /\ UNCHANGED <<w_sel, w_i, w_st, w_trav, w_children, w_j, w_lookups, w_walk, w_k,
                   w_ref>>
    /\ UNCHANGED walkOthers

WalkNext ==
    \/ CheckValidity
    \/ LookupChildren
    \/ FetchGrandchildren
    \/ FinishCode
    \/ StartSecondLoop
    \/ RefineNext
    \/ ReturnRefined

WalkSpec == WalkInit /\ [][WalkNext]_vars

\* the pass is straight-line synchronous code: the statement it is at runs
WalkFairSpec == WalkSpec /\ WF_vars(WalkNext)

-----------------------------------------------------------------------------
(* Properties of the traversal *)

\* _get_nearby_descendants is about to return for the code the first loop is at
TraversalDone == w_pc = "grandchildren" /\ ~LoopContinues(w_trav, w_children, w_j)

\* what _get_nearby_descendants returns then
TraversalResult == Prefix(w_trav.all_descendants, MaxCodes)

DirectChildren == GetChildren(Taxonomy(tax), w_sel[w_i])

\* the grandchildren taken so far, child after child
RECURSIVE TakenUpTo(_)
TakenUpTo(n) ==
    IF n = 0 THEN <<>> ELSE TakenUpTo(n - 1) \o w_trav.fetched[n].taken

\* C26. What the traversal returns for a code is its direct children in the
\* order the library gives them, followed by grandchildren taken child after
\* child in ascending order of the children, the whole cut to max_codes; each
\* child gives a prefix of its own children no longer than the budget left
\* when it is looked up; a child is looked up only while budget is left and
\* the children alone did not reach max_codes; and every code returned is a
\* child or a child of a child.
C26_ChildrenThenGrandchildren ==
    w_pc = "grandchildren" =>
        /\ \A n \in 1..Len(w_trav.fetched) :
              /\ w_trav.fetched[n].child = Sorted(DirectChildren)[n]
              /\ w_trav.fetched[n].budget > 0
              /\ Len(DirectChildren) < MaxCodes
              /\ Len(w_trav.fetched[n].taken) <= w_trav.fetched[n].budget
              /\ w_trav.fetched[n].budget
                    = MaxCodes - Len(DirectChildren) - Len(TakenUpTo(n - 1))
              /\ \/ w_trav.fetched[n].raised /\ w_trav.fetched[n].taken = <<>>
                 \/ /\ ~w_trav.fetched[n].raised
                    /\ w_trav.fetched[n].taken
                          = Prefix(GetChildren(Taxonomy(tax), w_trav.fetched[n].child),
                                   w_trav.fetched[n].budget)
        /\ TraversalDone =>
              /\ TraversalResult
                    = Prefix(DirectChildren \o TakenUpTo(Len(w_trav.fetched)), MaxCodes)
              /\ Len(TraversalResult) <= MaxCodes
              /\ \A d \in Range(TraversalResult) :
                    \/ d \in Range(DirectChildren)
                    \/ \E c \in Range(DirectChildren) :
                          /\ ~GetChildrenRaises(Taxonomy(tax), c)
                          /\ d \in Range(GetChildren(Taxonomy(tax), c))
              /\ (Len(w_trav.fetched) < Len(DirectChildren)
                    /\ Len(DirectChildren) < MaxCodes)
                    => Len(TraversalResult) = MaxCodes

\* the children of the code left room, the first child in ascending order
\* gave some grandchildren, the budget ran out, and a child gave fewer
\* grandchildren than it has
C26_Witness ==
    /\ TraversalDone
    /\ Len(w_trav.fetched) >= 1
    /\ w_trav.fetched[1].taken # <<>>
    /\ Len(TraversalResult) = MaxCodes
    /\ \E n \in 1..Len(w_trav.fetched) :
          /\ ~w_trav.fetched[n].raised
          /\ Len(w_trav.fetched[n].taken)
                < Len(GetChildren(Taxonomy(tax), w_trav.fetched[n].child))

\* the first loop made, for every selected code, no more lookups than one
\* for its validity, one for its children and one per child below max_codes
LookupsBounded == \A i \in 1..Len(w_lookups) : w_lookups[i] <= MaxCodes + 1

\* the second loop handles no more codes than the selected codes and their
\* descendants, max_codes at most for each
WalkBounded ==
    /\ Len(w_walk) <= Len(w_sel) * (MaxCodes + 1)
    /\ w_k <= Len(w_walk) + 1

\* C27. Hierarchy completion terminates for every list of selected codes and
\* every taxonomy, cyclic or with failing lookups: the first loop makes at most
\* max_codes + 1 taxonomy lookups for a selected code, the second loop handles
\* at most max_codes + 1 codes per selected code, and the pass reaches its
\* return with a result.
C27_CompletionTerminates ==
    /\ [](LookupsBounded /\ WalkBounded)
    /\ <>(w_pc = "returned")

\* the pass returned for a taxonomy with a cycle (A00 -> A00.0 -> A00) and a
\* child the library does not know (A01.9): A00 came back as its own
\* grandchild and the lookup for A01.9 raised
C27_Witness ==
    /\ w_pc = "returned"
    /\ tax = "odd"
    /\ w_sel = <<A00, A01>>
    /\ A00 \in Range(w_st.contributions[1].descendants)
    /\ Sub(A01, 9) \in Range(w_st.contributions[2].descendants)
    /\ GetChildrenRaises(Taxonomy(tax), Sub(A01, 9))
    /\ w_lookups = <<4, 4>>

-----------------------------------------------------------------------------
(* data-prep/embed_and_store.py: main() of the embedding loader, run after *)
(* run on the same prepared data, log file and index                       *)

\* number of prepared codes in the model
NumIds == 5

\* EMBEDDING_BATCH_SIZE (500 in the source), scaled to the prepared codes
EmbeddingBatchSize == 3

\* UPSERT_BATCH_SIZE (200 in the source), scaled likewise
UpsertBatchSize == 2

\* codes the parser may have prepared: its code_map holds each code once,
\* stripped of surrounding blanks
IdPool == <<A00, Sub(A00, 0), Sub(A00, 1), A01, Sub(A01, 0), R10, Z79>>

\* all_data_df['id'], in the order of the prepared file
PreparedIds == Prefix(IdPool, NumIds)

\* line 106: f.write(f"{item_id}\n")
LogLine(item_id) == item_id \o <<"\n">>

\* log_processed_ids: one line per id appended to the file
LogProcessedIds(file, ids_to_log) ==
    file \o [k \in 1..Len(ids_to_log) |-> LogLine(ids_to_log[k])]

\* get_processed_ids_from_log: {line.strip() for line in f}, the empty set
\* when there is no file
GetProcessedIdsFromLog(file) == {Strip(file[k]) : k \in 1..Len(file)}

\* a run that takes every prepared code whatever the log holds
UnprocessedIgnoringLog(all_data, processed) == all_data

\* lines 127-132: unprocessed_df
Unprocessed(all_data, processed) ==
    IF processed # {}
    THEN LET New(id) == id \notin processed IN SelectSeq(all_data, New)
    ELSE all_data

\* s[offset : offset + size] for a 0-based offset
Slice(s, offset, size) == SubSeq(s, offset + 1, Min(Len(s), offset + size))

\* how index.upsert may end: the vectors are stored and it returns; it raises
\* with nothing stored; it raises though the vectors were stored
UpsertOutcomes == {"ok", "failed", "failed_after_storing"}

\* a chunk logged whether or not its upsert returned
UpsertThenLog(store, file, chunk, outcome) ==
    [store |-> IF outcome = "failed" THEN store ELSE store \cup Range(chunk),
     file |-> LogProcessedIds(file, chunk)]

\* lines 186-194: the upsert of a chunk and, when it returned, the logging
\* of its ids
UpsertAndLog(store, file, chunk, outcome) ==
    [store |-> IF outcome = "failed" THEN store ELSE store \cup Range(chunk),
     file |-> IF outcome = "ok" THEN LogProcessedIds(file, chunk) ELSE file]

\* a batch loop that a failed embedding call ends
StopAfterEmbeddingFailure(i, n) == n

\* line 152: continue, the loop goes on to the next batch
ContinueAfterEmbeddingFailure(i, n) == i + EmbeddingBatchSize

LoaderInit ==
    /\ tax = "icd"
    /\ PipelineIdle
    /\ HarnessIdle
    /\ ScorerIdle
    /\ ConcurrentIdle
    /\ SearchIdle
    /\ FormatIdle
    /\ WalkIdle
    /\ LoaderIdle

loaderOthers == <<pipelineVars, harnessVars, scorerVars, c_req, searchVars, formatVars,
                  walkVars>>

\* lines 120-140: the script is started; it reads the log, keeps the codes
\* that are not in it and exits when none is left
StartRun ==
    /\ l_pc \in {"off", "exited"}
    /\ \E processed \in {GetProcessedIdsFromLog(log_file)} :
       \E todo \in {Unprocessed(PreparedIds, GetProcessedIdsFromLog(log_file))} :
         /\ processed_ids' = processed
         /\ unprocessed' = todo
         /\ l_pc' = IF todo = <<>> THEN "exited" ELSE "batch"
    /\ l_i' = 0
    /\ l_j' = 0
    /\ vectors_to_upsert' = <<>>
    /\ l_calls' = <<>>
    /\ UNCHANGED <<log_file, index_store>>
    /\ UNCHANGED loaderOthers

\* what a call of create_embeddings or index.upsert leaves in l_calls
Call(kind, ids, ok) ==
    [kind |-> kind, ids |-> ids, ok |-> ok,
     logged_before |-> GetProcessedIdsFromLog(log_file)]

\* lines 143-181: the batch is embedded and its vectors are built
EmbedSucceeds ==
    /\ l_pc = "batch"
    /\ l_i < Len(unprocessed)
    /\ \E batch \in {Slice(unprocessed, l_i, EmbeddingBatchSize)} :
         /\ vectors_to_upsert' = batch
         /\ l_calls' = Append(l_calls, Call("embed", batch, TRUE))
    /\ l_j' = 0
    /\ l_pc' = "chunk"
    /\ UNCHANGED <<log_file, index_store, processed_ids, unprocessed, l_i>>
    /\ UNCHANGED loaderOthers

\* lines 147-152: create_embeddings raises and the batch is skipped
EmbedFails ==
    /\ l_pc = "batch"
    /\ l_i < Len(unprocessed)
    /\ l_calls' = Append(l_calls, Call("embed",
                                       Slice(unprocessed, l_i, EmbeddingBatchSize), FALSE))
    /\ l_i' = ContinueAfterEmbeddingFailure(l_i, Len(unprocessed))
    /\ UNCHANGED <<l_pc, log_file, index_store, processed_ids, unprocessed,
                   vectors_to_upsert, l_j>>
    /\ UNCHANGED loaderOthers

\* lines 184-190: the chunk is upserted and its ids are logged
UpsertSucceeds ==
    /\ l_pc = "chunk"
    /\ l_j < Len(vectors_to_upsert)
    /\ \E chunk \in {Slice(vectors_to_upsert, l_j, UpsertBatchSize)} :
       \E after \in {UpsertAndLog(index_store, log_file, chunk, "ok")} :
         /\ index_store' = after.store
         /\ log_file' = after.file
         /\ l_calls' = Append(l_calls, Call("upsert", chunk, TRUE))
    /\ l_j' = l_j + UpsertBatchSize
    /\ UNCHANGED <<l_pc, processed_ids, unprocessed, l_i, vectors_to_upsert>>
    /\ UNCHANGED loaderOthers

\* lines 191-194: index.upsert raises; the loop goes on to the next chunk
UpsertFails ==
    /\ l_pc = "chunk"
    /\ l_j < Len(vectors_to_upsert)
    /\ \E chunk \in {Slice(vectors_to_upsert, l_j, UpsertBatchSize)} :
       \E outcome \in UpsertOutcomes \ {"ok"} :
       \E after \in {UpsertAndLog(index_store, log_file, chunk, outcome)} :
         /\ index_store' = after.store
         /\ log_file' = after.file
         /\ l_calls' = Append(l_calls, Call("upsert", chunk, FALSE))
    /\ l_j' = l_j + UpsertBatchSize
    /\ UNCHANGED <<l_pc, processed_ids, unprocessed, l_i, vectors_to_upsert>>
    /\ UNCHANGED loaderOthers

\* line 142: the chunks of the batch are done, the loop goes on to the next batch
NextBatch ==
    /\ l_pc = "chunk"
    /\ l_j >= Len(vectors_to_upsert)
    /\ l_i' = l_i + EmbeddingBatchSize
    /\ l_pc' = "batch"
    /\ UNCHANGED <<log_file, index_store, processed_ids, unprocessed, vectors_to_upsert,
                   l_j, l_calls>>
    /\ UNCHANGED loaderOthers

\* line 196: the batches are done and the script ends
EndRun ==
    /\ l_pc = "batch"
    /\ l_i >= Len(unprocessed)
    /\ l_pc' = "exited"
    /\ UNCHANGED <<log_file, index_store, processed_ids, unprocessed, l_i,
                   vectors_to_upsert, l_j, l_calls>>
    /\ UNCHANGED loaderOthers

LoaderNext ==
    \/ StartRun
    \/ EmbedSucceeds
    \/ EmbedFails
    \/ UpsertSucceeds
    \/ UpsertFails
    \/ NextBatch
    \/ EndRun

LoaderSpec == LoaderInit /\ [][LoaderNext]_vars

\* the script is sequential and is started again after it ended; a call to
\* the embedding service or to the index that is made again and again
\* succeeds at some point
LoaderFairSpec ==
    /\ LoaderSpec
    /\ WF_vars(LoaderNext)
    /\ SF_vars(EmbedSucceeds)
    /\ SF_vars(UpsertSucceeds)

-----------------------------------------------------------------------------
(* Properties of the embedding loader *)

\* the ids the log holds now
LoggedIds == GetProcessedIdsFromLog(log_file)

\* C28. Every id in the processed-ids log is the id of a vector the index
\* holds, in every state of every run and whatever calls have failed: an id
\* is logged only by the step in which the upsert of its chunk returned.
C28_LoggedImpliesStored ==
    /\ LoggedIds \subseteq index_store
    /\ \A k \in 1..Len(log_file) : Strip(log_file[k]) \in Range(PreparedIds)

\* a second run has logged a chunk after an upsert of its own had failed,
\* and the index holds a vector whose id is not logged
C28_Witness ==
    /\ processed_ids # {}
    /\ LoggedIds \ processed_ids # {}
    /\ index_store \ LoggedIds # {}
    /\ \E k \in 1..Len(l_calls) : l_calls[k].kind = "upsert" /\ ~l_calls[k].ok

\* the ids handed to the calls of one kind this run has made
CalledWith(kind) ==
    UNION {Range(l_calls[k].ids) : k \in {m \in 1..Len(l_calls) : l_calls[m].kind = kind}}

\* C29. A run takes exactly the prepared ids that were not in the log when it
\* started: no call to the embedding service or to the index is handed an id
\* that the log held when the run read it or holds at the time of the call,
\* and a run that finds every prepared id in the log exits without any call.
C29_LoggedIdsNotProcessedAgain ==
    l_pc # "off" =>
        /\ Range(unprocessed) = Range(PreparedIds) \ processed_ids
        /\ \A k \in 1..Len(l_calls) :
             /\ Range(l_calls[k].ids) \cap processed_ids = {}
             /\ Range(l_calls[k].ids) \cap l_calls[k].logged_before = {}
        /\ Range(PreparedIds) \subseteq processed_ids => l_calls = <<>> /\ l_pc = "exited"

\* a run that found some of the prepared ids in the log has embedded and
\* upserted others
C29_Witness ==
    /\ processed_ids # {}
    /\ CalledWith("embed") # {}
    /\ \E k \in 1..Len(l_calls) : l_calls[k].kind = "upsert" /\ l_calls[k].ok

\* a run that found every prepared id in the log
EverythingWasLogged ==
    l_pc = "exited" /\ Range(PreparedIds) \subseteq processed_ids

\* every prepared id is logged
AllLogged == LoggedIds = Range(PreparedIds)

\* the ids of the batches whose embedding call returned
Embedded ==
    UNION {Range(l_calls[k].ids) :
             k \in {m \in 1..Len(l_calls) : l_calls[m].kind = "embed" /\ l_calls[m].ok}}

\* a failed call leaves its ids out of the log, and a run that has ended has
\* attempted every batch and every chunk of an embedded batch
FailuresSkipped ==
    /\ \A k \in 1..Len(l_calls) : ~l_calls[k].ok => Range(l_calls[k].ids) \cap LoggedIds = {}
    /\ l_pc = "exited" =>
         /\ CalledWith("embed") = Range(unprocessed)
         /\ CalledWith("upsert") = Embedded

\* C30. A failed embedding call or a failed upsert does not end the run: the
\* run goes on to the later batches and chunks, and the ids of the failed call
\* stay out of the log, so that the next run takes them again. When the runs
\* are repeated and the calls that are made again and again succeed at some
\* point, every prepared id is logged in the end.
C30_FailuresRetriedUntilLogged == [](FailuresSkipped) /\ <>[](AllLogged)

\* a later run has ended; a call of it failed, a call after that one
\* returned, and the run has logged ids that an earlier run had left out
C30_Witness ==
    /\ l_pc = "exited"
    /\ processed_ids # {}
    /\ LoggedIds \ processed_ids # {}
    /\ \E k \in 1..Len(l_calls) : \E m \in (k + 1)..Len(l_calls) :
         ~l_calls[k].ok /\ l_calls[m].ok

====
